---------------------------- MODULE Spec2Model ----------------------------
(***************************************************************************)
(* Model of the act task runner (nosebit/act, cmd/act): the name resolver  *)
(* FindActCtx, the stage / command executor (ActRunCtx.Exec, StageCmdsExec,*)
(* CmdExec) and the supervisor (Stop, Finish, the signal goroutine of      *)
(* main).                                                                  *)
(*                                                                         *)
(* Strings that the code takes apart (act names, call segments) are        *)
(* sequences of one-character strings; a manifest path is an opaque string.*)
(***************************************************************************)
EXTENDS Integers, Sequences, FiniteSets, TLC

(***************************************************************************)
(* Bounds of the model.                                                    *)
(***************************************************************************)
\* longest dotted call drawn for the resolver (number of segments)
MaxSegs == 2
\* number of SIGINT/SIGTERM/SIGQUIT the environment sends to the supervisor
MaxSignals == 1

(***************************************************************************)
(* Data model (actfile package): acts, stages, commands.                   *)
(***************************************************************************)
NoStage == [nil |-> TRUE, parallel |-> FALSE, cmds |-> <<>>]

SeqStage(cs) == [nil |-> FALSE, parallel |-> FALSE, cmds |-> cs]

ParStage(cs) == [nil |-> FALSE, parallel |-> TRUE, cmds |-> cs]

\* a shell line that exits with status code when it is left alone
Sh(code) == [act |-> <<>>, mismatch |-> "", exit |-> code]

\* an in-process act call `act: <dotted name>`
Call(names, mm) == [act |-> names, mismatch |-> mm, exit |-> 0]

Act(n, rd, inc, kids, bf, st, fi, td) ==
    [name |-> n, redirect |-> rd, include |-> inc, acts |-> kids,
     before |-> bf, start |-> st, final |-> fi, teardown |-> td, flags |-> FALSE]

\* the act declares command line flags
WithFlags(act) == [act EXCEPT !.flags = TRUE]

NilAct == Act(<<>>, "", "", <<>>, NoStage, NoStage, NoStage, NoStage)

\* an act that only matters for resolution
Leaf(n) == Act(n, "", "", <<>>, NoStage, SeqStage(<<Sh(0)>>), NoStage, NoStage)

Redirect(n, f) == Act(n, f, "", <<>>, NoStage, NoStage, NoStage, NoStage)

Include(n, f) == Act(n, "", f, <<>>, NoStage, NoStage, NoStage, NoStage)

Nested(n, kids) == Act(n, "", "", kids, NoStage, SeqStage(<<Sh(0)>>), NoStage, NoStage)

(***************************************************************************)
(* regexp.MatchString("^" + name + "$", target) for the fragment of the    *)
(* regular expressions used here: literal characters, `.`, and the postfix *)
(* operators `+` and `*`.  A pattern that starts with a repetition operator*)
(* does not compile, and the code then takes the match to be false.        *)
(***************************************************************************)
RECURSIVE RxMatch(_, _)
RxMatch(p, s) ==
    IF p = <<>> THEN s = <<>>
    ELSE IF p[1] \in {"+", "*"} THEN FALSE
    ELSE IF Len(p) >= 2 /\ p[2] \in {"+", "*"}
         THEN LET rest == SubSeq(p, 3, Len(p))
                  AtomOk(c) == p[1] = "." \/ p[1] = c
              IN  \/ (p[2] = "*" /\ RxMatch(rest, s))
                  \/ \E k \in 1..Len(s) :
                        /\ \A i \in 1..k : AtomOk(s[i])
                        /\ RxMatch(rest, SubSeq(s, k + 1, Len(s)))
         ELSE /\ s # <<>>
              /\ (p[1] = "." \/ p[1] = s[1])
              /\ RxMatch(Tail(p), Tail(s))

SetMin(S) == CHOOSE x \in S : \A y \in S : x <= y


(***************************************************************************)
(* State.                                                                  *)
(***************************************************************************)
VARIABLES
    actFiles,    \* manifest path -> its ordered top-level acts
    beforeAlls,  \* manifest path -> its before-all stage
    actFileObjs, \* the ActFile objects made by ReadActFile so far: path, InitWg
    callNames,   \* the dotted call of `act run`, as its list of segments
    resolved,    \* resolver run: the outcome of FindActCtx, NotResolved before
    gor,         \* goroutines, each a stack of frames: 1 is main, 2 the signal goroutine
    wgs,         \* the sync.WaitGroup of every StageCmdsExec call, with its stage
    ctxs,        \* the ActRunCtx objects created so far
    curPar,      \* per ActRunCtx: CurrentStage.Parallel
    run,         \* runCtx: assigned?, State, IsFinishing, ActCtx, ActCtxCallStack; and
                 \* the invocations whose flags did not parse
    info,        \* runCtx.Info and its directory: CmdPgids, IsKilling, dir
    util,        \* package utils: ExitCode, KillInProgress
    sigs,        \* the signal channel of main (buffer of one), the signals sent to the
                 \* supervisor, and whom the supervisor has sent SIGQUIT
    procs,       \* the shell children started so far, in the order of their start
    os,          \* the supervisor process: alive, or how it ended
    varSrc,      \* variable resolver run: the variable sources of an invocation
    dotenv,      \* variable resolver run: the lines of the runtime dotenv of the run
    exported,    \* variable resolver run: per command, what MergeVars gave it
    runners,     \* run tree: the runner processes, in the order of their spawn
    store,       \* run tree: the data directory of every run id and its descriptor
    shells,      \* run tree: the shell children of the runners, by process group
    stopped,     \* run tree: the run ids `act stop` has called Info.Kill on
    stops,       \* run tree: the `act stop` processes and the descriptor each has loaded
    dataDir,     \* descriptor scan: the directories of the data directory, in the order of ReadDir
    infos,       \* descriptor scan: the call made and what it returned
    logWriter    \* log writer: a LogWriter, the bytes written to it and what it has put out

\* the state of the variable resolver runs
varsState == <<varSrc, dotenv, exported>>

\* the state of the run tree
treeState == <<runners, store, shells, stopped, stops>>

\* the state of the descriptor scans
scanState == <<dataDir, infos>>

\* the state of the log writer runs
logState == <<logWriter>>

(***************************************************************************)
(* Name resolver: FindActCtx.                                              *)
(***************************************************************************)
\* an ActRunCtx as far as resolution reads it; pos locates ctx.Act in the
\* manifests (path of the manifest, then the indexes down the nested acts). The ActFile
\* pointers of a resolution are numbered: reads lists the manifests that
\* ReadActFile has loaded so far, afile is the place in reads of ctx.ActFile
\* (0: the ActFile handed to the resolution) and pfile that of
\* ctx.PrevCtx.ActFile (-1: PrevCtx is nil)
NilCtx == [nil |-> TRUE, act |-> NilAct, file |-> "", callId |-> <<>>,
           actName |-> <<>>, pos |-> <<>>, reads |-> <<>>, afile |-> 0, pfile |-> -1]

\* ctx as the prevCtx of a new resolution, which is handed ctx.ActFile
Given(ctx) == [ctx EXCEPT !.reads = <<>>, !.afile = 0]

\* ctx after ReadActFile(path)
Reading(ctx, path) == [ctx EXCEPT !.reads = Append(@, path)]

IndexName == <<"_">>

\* mutation of TargetActName: no index convention for the empty list
TargetActNameNoIndex(actNames) ==
    IF Len(actNames) = 0 THEN <<>> ELSE actNames[1]

TargetActName(actNames) ==
    IF Len(actNames) = 0 THEN IndexName ELSE actNames[1]

\* the candidates come from the previous context's act when it has nested acts
UseNestedActs(prevCtx) == ~prevCtx.nil /\ Len(prevCtx.act.acts) > 0

\* mutation of FirstMatch: the last matching act wins
LastMatch(acts, target) ==
    LET ms == {i \in 1..Len(acts) : RxMatch(acts[i].name, target)}
    IN  IF ms = {} THEN 0 ELSE CHOOSE x \in ms : \A y \in ms : y <= x

FirstMatch(acts, target) ==
    LET ms == {i \in 1..Len(acts) : RxMatch(acts[i].name, target)}
    IN  IF ms = {} THEN 0 ELSE SetMin(ms)

\* mutation of RedirectNames: a redirect consumes the matched segment
RedirectNamesConsumed(actNames) == Tail(actNames)

RedirectNames(actNames) == actNames

\* actNames[1:] (a run-time panic on the empty list)
RestNames(actNames) == Tail(actNames)

\* mutation of FollowInclude: only when segments remain after the matched one
FollowIncludeIfMore(act, actNames) == act.include # "" /\ Len(actNames) > 1

FollowInclude(act, actNames) == act.include # ""

DescendNested(act, actNames) == Len(act.acts) > 0 /\ Len(actNames) > 0

NotFound(target, path) ==
    [status |-> "error", ctx |-> NilCtx, target |-> target, path |-> path]

Found(ctx) == [status |-> "ok", ctx |-> ctx, target |-> <<>>, path |-> ""]

\* the Go run time stops the process: slice bounds out of range
SlicePanic == [status |-> "panic", ctx |-> NilCtx, target |-> <<>>, path |-> ""]

RECURSIVE FindActCtx(_, _, _, _)
FindActCtx(files, actNames, actFile, prevCtx) ==
    LET target == TargetActName(actNames)
        nested == UseNestedActs(prevCtx)
        acts   == IF nested THEN prevCtx.act.acts ELSE files[actFile]
        actFileLocationPath == IF nested THEN prevCtx.file ELSE actFile
        base   == IF nested THEN prevCtx.pos ELSE <<actFile>>
        i      == FirstMatch(acts, target)
    IN  IF i = 0 THEN NotFound(target, actFileLocationPath)
        ELSE LET act == acts[i]
                 ctx == [nil |-> FALSE, act |-> act, file |-> actFile,
                         callId |-> Append(prevCtx.callId, target),
                         actName |-> target, pos |-> Append(base, i),
                         reads |-> prevCtx.reads, afile |-> Len(prevCtx.reads),
                         pfile |-> IF prevCtx.nil THEN -1 ELSE prevCtx.afile]
             IN  IF act.redirect # ""
                 THEN FindActCtx(files, RedirectNames(actNames), act.redirect,
                                 Reading(ctx, act.redirect))
                 ELSE IF FollowInclude(act, actNames)
                 THEN IF Len(actNames) = 0 THEN SlicePanic
                      ELSE FindActCtx(files, RestNames(actNames), act.include,
                                      Reading(ctx, act.include))
                 ELSE IF DescendNested(act, actNames)
                 THEN FindActCtx(files, RestNames(actNames), actFile, ctx)
                 ELSE Found(ctx)

(***************************************************************************)
(* The executor and the supervisor.                                        *)
(*                                                                         *)
(* A goroutine is a stack of frames, its running call last. A frame holds  *)
(* the function, the place it has reached and its locals: the ActRunCtx    *)
(* (an index of ctxs), the stage, the position of the loop, the wait group *)
(* (an index of wgs), the command and the process group of its child.      *)
(* One step of a goroutine goes from one access of the shared state        *)
(* (runCtx, Info, utils, wait groups, children) to the next.               *)
(*                                                                         *)
(* The manifests drawn declare no loops and no detached or daemon calls,   *)
(* so actDetachExec has nothing to do in these runs; of the flag parser    *)
(* the runs see only whether it accepts the arguments of a call.           *)
(***************************************************************************)
\* the manifest of the working directory, and one that edges refer to
RootPath == "actfile.yml"

OtherPath == "x.yml"

\* a manifest that the other manifest refers to
ThirdPath == "y.yml"

NoCmd == Sh(0)

Frame(fn, pc, c, st, sn, i, w, cm, p) ==
    [fn |-> fn, pc |-> pc, ctx |-> c, stage |-> st, sname |-> sn,
     idx |-> i, wg |-> w, cmd |-> cm, pg |-> p]

MainFrame == Frame("main", "create", 0, NoStage, "", 0, 0, NoCmd, 0)

SigFrame == Frame("sig", "recv", 0, NoStage, "", 0, 0, NoCmd, 0)

ExecFrame(c) == Frame("Exec", "enter", c, NoStage, "", 0, 0, NoCmd, 0)

StageFrame(c, st, sn) == Frame("Stage", "guard", c, st, sn, 1, 0, NoCmd, 0)

CmdFrame(c, cm, w, sn) == Frame("Cmd", "guard", c, NoStage, sn, 0, w, cm, 0)

FinishFrame == Frame("Finish", "check", 0, NoStage, "", 0, 0, NoCmd, 0)

StopFrame == Frame("Stop", "check", 0, NoStage, "", 0, 0, NoCmd, 0)

\* ExecState: the zero value before Exec sets it, then the two constants
ExecStateRunning == "running"

ExecStateStopped == "stopped"

\* exit status of a Go program that dies of a runtime panic
PanicStatus == 2

Alive == os.status = "alive"

Fr(g) == gor[g][Len(gor[g])]

At(g, fn, pc) ==
    /\ Alive
    /\ g \in DOMAIN gor
    /\ Len(gor[g]) > 0
    /\ Fr(g).fn = fn
    /\ Fr(g).pc = pc

\* the frame of g goes on with the fields of f
Step(g, f) == [gor EXCEPT ![g][Len(gor[g])] = f]

Goto(g, pc) == Step(g, [Fr(g) EXCEPT !.pc = pc])

\* the running call of g returns to its caller
Ret(g) == [gor EXCEPT ![g] = SubSeq(@, 1, Len(@) - 1)]

\* g calls f and will go on at pc when f returns
Invoke(g, pc, f) == [gor EXCEPT ![g] = Append([@ EXCEPT ![Len(@)].pc = pc], f)]

\* the process dies of a runtime panic; why names the expression that panics
Panic(why) == [status |-> "panic", code |-> PanicStatus, why |-> why]

InSeq(x, s) == \E i \in DOMAIN s : s[i] = x

Without(s, x) == SelectSeq(s, LAMBDA y : y # x)

\* wg.Done()
Done(w) == [wgs EXCEPT ![w].cnt = @ - 1]

\* utils.exitGracefully after ExitCode is set: the first call sends SIGQUIT to
\* the process whose id is os.Getegid(); reached says whether that signal
\* comes back to this process: it does when the effective group id is 0,
\* which addresses the signal to the process group of the supervisor, and
\* otherwise the signal is addressed to whatever process has that id
FatalErrorWithCode(code, reached) ==
    /\ util' = [ExitCode |-> code, KillInProgress |-> TRUE]
    /\ sigs' = IF util.KillInProgress THEN sigs
               ELSE IF reached THEN [sigs EXCEPT !.chan = 1, !.quit = "own group"]
               ELSE [sigs EXCEPT !.quit = "pid egid"]

FatalError(reached) == FatalErrorWithCode(1, reached)

\* Info.KillChildren: SIGKILL to every process group of CmdPgids
KilledProcs ==
    [p \in DOMAIN procs |->
        IF InSeq(p, info.CmdPgids) /\ procs[p].st = "running"
        THEN [procs[p] EXCEPT !.st = "killed"] ELSE procs[p]]

\* Info.KillChildren: the descriptor is marked and saved
KillChildren == [info EXCEPT !.IsKilling = TRUE, !.dir = TRUE]

\* Info.KillChildActs: the run has no detached child here
KillChildActs == info

\* FinalStageExec: the final stage, else the legacy teardown stage
FinalStage(act) ==
    IF ~act.final.nil THEN act.final
    ELSE IF ~act.teardown.nil THEN act.teardown
    ELSE NoStage

FailureAlwaysFatal(par) == TRUE

\* CmdExec: a failed command of a stage that is not parallel is fatal
FailureIsFatal(par) == ~par

\* actfile.ReadActFile: a new ActFile object at every call
ReadActFile(path) == [path |-> path, InitWg |-> FALSE]

\* the ActFile objects that the resolution ending in ctx has loaded
NewActFiles(ctx) == [k \in 1..Len(ctx.reads) |-> ReadActFile(ctx.reads[k])]

\* ctx with its ActFile pointers as places in actFileObjs: given is the
\* ActFile handed to the resolution, base the objects made before it
\* (pfile 0: PrevCtx is nil)
Bound(ctx, given, base) ==
    [ctx EXCEPT !.reads = <<>>,
                !.afile = IF @ = 0 THEN given ELSE base + @,
                !.pfile = IF @ = -1 THEN 0 ELSE IF @ = 0 THEN given ELSE base + @]

BeforeCallId == <<"before">>

\* ExecBeforeAll, first loop: from curr on, the ActFile objects that get
\* their InitWg, outermost first; inited are the objects that have it. The
\* step of the loop is currCtx = ctx.PrevCtx, so that prev stays the same
RECURSIVE BeforeAllWalk(_, _, _, _)
BeforeAllWalk(inited, curr, prev, stack) ==
    IF curr = 0 \/ curr \in inited THEN stack
    ELSE BeforeAllWalk(inited \cup {curr}, prev, prev, <<curr>> \o stack)

\* ExecBeforeAll: has the manifest of object o a before-all stage with commands
HasBeforeAll(o) ==
    LET b == beforeAlls[actFileObjs[o].path]
    IN  ~b.nil /\ Len(b.cmds) > 0

\* ExecBeforeAll: the context made for the before-all stage of object o,
\* which the walk met at the context of call id callId
BeforeAllCtx(o, callId) ==
    [nil |-> FALSE,
     act |-> Act(<<>>, "", "", <<>>, NoStage, beforeAlls[actFileObjs[o].path], NoStage, NoStage),
     file |-> actFileObjs[o].path, callId |-> Append(callId, BeforeCallId),
     actName |-> <<>>, pos |-> <<>>, reads |-> <<>>, afile |-> o, pfile |-> 0]

-----------------------------------------------------------------------------
(* main and RunCmdExec *)

\* RunCmdExec reads the manifest of the working directory; createRunCtx
\* resolves the call in it; a resolution error is fatal
CreateRunCtx ==
    /\ At(1, "main", "create")
    /\ LET r == FindActCtx(actFiles, callNames, RootPath, NilCtx)
       IN  /\ resolved' = r
           /\ actFileObjs' = <<ReadActFile(RootPath)>> \o NewActFiles(r.ctx)
           /\ IF r.status = "ok"
              THEN /\ ctxs' = Append(ctxs, Bound(r.ctx, 1, 1))
                   /\ curPar' = Append(curPar, FALSE)
                   /\ run' = [run EXCEPT !.ActCtx = Len(ctxs) + 1]
                   /\ gor' = Goto(1, "assign")
                   /\ UNCHANGED <<util, sigs, os>>
              ELSE IF r.status = "error"
              THEN /\ \E reached \in BOOLEAN : FatalError(reached)
                   /\ gor' = Goto(1, "assign")
                   /\ UNCHANGED <<ctxs, curPar, run, os>>
              ELSE /\ os' = Panic("actNames[1:]")
                   /\ UNCHANGED <<ctxs, curPar, run, gor, util, sigs>>
    /\ UNCHANGED <<treeState, varsState, scanState, logState, actFiles, beforeAlls, callNames, wgs, info, procs>>

\* RunCmdExec: runCtx = createRunCtx(...)
AssignRunCtx ==
    /\ At(1, "main", "assign")
    /\ run' = [run EXCEPT !.set = TRUE]
    /\ gor' = Goto(1, "setstate")
    /\ UNCHANGED <<treeState, varsState, scanState, logState, actFiles, beforeAlls, actFileObjs, callNames, resolved, wgs, ctxs, curPar, info, util, sigs, procs, os>>

\* RunCmdExec: runCtx.State = ExecStateRunning
SetRunning ==
    /\ At(1, "main", "setstate")
    /\ run' = [run EXCEPT !.State = ExecStateRunning]
    /\ gor' = Goto(1, "run")
    /\ UNCHANGED <<treeState, varsState, scanState, logState, actFiles, beforeAlls, actFileObjs, callNames, resolved, wgs, ctxs, curPar, info, util, sigs, procs, os>>

\* RunCmdExec: save the descriptor and execute the act, when there is one
RunActCtx ==
    /\ At(1, "main", "run")
    /\ IF run.ActCtx # 0
       THEN /\ info' = [info EXCEPT !.dir = TRUE]
            /\ gor' = Invoke(1, "finish", ExecFrame(run.ActCtx))
       ELSE /\ gor' = Goto(1, "finish")
            /\ UNCHANGED info
    /\ UNCHANGED <<treeState, varsState, scanState, logState, actFiles, beforeAlls, actFileObjs, callNames, resolved, wgs, ctxs, curPar, run, util, sigs, procs, os>>

\* main: cmd.Finish()
CallFinish ==
    /\ At(1, "main", "finish")
    /\ gor' = Invoke(1, "exit", FinishFrame)
    /\ UNCHANGED <<treeState, varsState, scanState, logState, actFiles, beforeAlls, actFileObjs, callNames, resolved, wgs, ctxs, curPar, run, info, util, sigs, procs, os>>

\* main: os.Exit(utils.ExitCode)
OsExit ==
    /\ At(1, "main", "exit")
    /\ os' = [status |-> "exit", code |-> util.ExitCode, why |-> ""]
    /\ UNCHANGED <<treeState, varsState, scanState, logState, actFiles, beforeAlls, actFileObjs, callNames, resolved, gor, wgs, ctxs, curPar, run, info, util, sigs, procs>>

-----------------------------------------------------------------------------
(* ActRunCtx.Exec *)

\* push the context on the call stack, then ExecBeforeAll: the manifests of
\* the walk get their InitWg, and those with a before-all stage get a context
\* each, which are then executed in turn, outermost first (the frames of
\* these calls of Exec are stacked with the first one on top)
ExecEnter(g) ==
    /\ At(g, "Exec", "enter")
    /\ run' = [run EXCEPT !.stack = Append(@, Fr(g).ctx)]
    /\ LET ctx    == ctxs[Fr(g).ctx]
           inited == {o \in DOMAIN actFileObjs : actFileObjs[o].InitWg}
           walk   == BeforeAllWalk(inited, ctx.afile, ctx.pfile, <<>>)
           stack  == SelectSeq(walk, HasBeforeAll)
           callId(o) == IF o = ctx.afile THEN ctx.callId
                        ELSE SubSeq(ctx.callId, 1, Len(ctx.callId) - 1)
           n      == Len(stack)
       IN  /\ actFileObjs' = [o \in DOMAIN actFileObjs |->
                                 IF InSeq(o, walk) THEN [actFileObjs[o] EXCEPT !.InitWg = TRUE]
                                 ELSE actFileObjs[o]]
           /\ ctxs' = ctxs \o [k \in 1..n |-> BeforeAllCtx(stack[k], callId(stack[k]))]
           /\ curPar' = curPar \o [k \in 1..n |-> FALSE]
           /\ gor' = [gor EXCEPT ![g] =
                         Goto(g, "check")[g] \o [k \in 1..n |-> ExecFrame(Len(ctxs) + n + 1 - k)]]
    /\ UNCHANGED <<treeState, varsState, scanState, logState, actFiles, beforeAlls, callNames, resolved, wgs, info, util, sigs, procs, os>>

\* flagSet.Parse(ctx.Args) of an act with flags fails on the arguments of the
\* call: Stop()
ExecFlagError(g) ==
    /\ At(g, "Exec", "check")
    /\ ctxs[Fr(g).ctx].act.flags
    /\ gor' = Invoke(g, "flagfinish", StopFrame)
    /\ run' = [run EXCEPT !.flagErr = @ \cup {Fr(g).ctx}]
    /\ UNCHANGED <<treeState, varsState, scanState, logState, actFiles, beforeAlls, actFileObjs, callNames, resolved, wgs, ctxs, curPar, info, util, sigs, procs, os>>

\* flag parse error: Finish()
ExecFlagFinish(g) ==
    /\ At(g, "Exec", "flagfinish")
    /\ gor' = Invoke(g, "flagfatal", FinishFrame)
    /\ UNCHANGED <<treeState, varsState, scanState, logState, actFiles, beforeAlls, actFileObjs, callNames, resolved, wgs, ctxs, curPar, run, info, util, sigs, procs, os>>

\* flag parse error: utils.FatalError() and return
ExecFlagFatal(g) ==
    /\ At(g, "Exec", "flagfatal")
    /\ \E reached \in BOOLEAN : FatalError(reached)
    /\ gor' = Ret(g)
    /\ UNCHANGED <<treeState, varsState, scanState, logState, actFiles, beforeAlls, actFileObjs, callNames, resolved, wgs, ctxs, curPar, run, info, procs, os>>

\* the flags are parsed, or there are none; an act without start stage returns
ExecCheck(g) ==
    /\ At(g, "Exec", "check")
    /\ gor' = IF ctxs[Fr(g).ctx].act.start.nil THEN Ret(g) ELSE Goto(g, "before")
    /\ UNCHANGED <<treeState, varsState, scanState, logState, actFiles, beforeAlls, actFileObjs, callNames, resolved, wgs, ctxs, curPar, run, info, util, sigs, procs, os>>

ExecBefore(g) ==
    /\ At(g, "Exec", "before")
    /\ LET act == ctxs[Fr(g).ctx].act
       IN  gor' = IF ~act.before.nil
                  THEN Invoke(g, "start", StageFrame(Fr(g).ctx, act.before, "before"))
                  ELSE Goto(g, "start")
    /\ UNCHANGED <<treeState, varsState, scanState, logState, actFiles, beforeAlls, actFileObjs, callNames, resolved, wgs, ctxs, curPar, run, info, util, sigs, procs, os>>

ExecStart(g) ==
    /\ At(g, "Exec", "start")
    /\ gor' = Invoke(g, "final", StageFrame(Fr(g).ctx, ctxs[Fr(g).ctx].act.start, "start"))
    /\ UNCHANGED <<treeState, varsState, scanState, logState, actFiles, beforeAlls, actFileObjs, callNames, resolved, wgs, ctxs, curPar, run, info, util, sigs, procs, os>>

\* Exec: len(ctx.RunCtx.ActCtxCallStack) == 1
LastActiveCtx == Len(run.stack) = 1

\* unless the run is stopped: release the detached children when this is
\* the main act, run the final stage, and then pop the context
ExecFinal(g) ==
    /\ At(g, "Exec", "final")
    /\ IF run.State # ExecStateStopped
       THEN LET fin == FinalStage(ctxs[Fr(g).ctx].act)
            IN  /\ info' = IF LastActiveCtx THEN KillChildActs ELSE info
                /\ gor' = IF fin.nil THEN Goto(g, "pop")
                          ELSE Invoke(g, "pop", StageFrame(Fr(g).ctx, fin, "final"))
       ELSE /\ gor' = Ret(g)
            /\ UNCHANGED info
    /\ UNCHANGED <<treeState, varsState, scanState, logState, actFiles, beforeAlls, actFileObjs, callNames, resolved, wgs, ctxs, curPar, run, util, sigs, procs, os>>

\* ActCtxCallStack = ActCtxCallStack[:lastIdx]; an empty stack makes the
\* slice expression panic
ExecPop(g) ==
    /\ At(g, "Exec", "pop")
    /\ IF Len(run.stack) = 0
       THEN /\ os' = Panic("ActCtxCallStack[:lastIdx]")
            /\ UNCHANGED <<run, gor>>
       ELSE /\ run' = [run EXCEPT !.stack = SubSeq(@, 1, Len(@) - 1)]
            /\ gor' = Ret(g)
            /\ UNCHANGED os
    /\ UNCHANGED <<treeState, varsState, scanState, logState, actFiles, beforeAlls, actFileObjs, callNames, resolved, wgs, ctxs, curPar, info, util, sigs, procs>>

-----------------------------------------------------------------------------
(* StageCmdsExec *)

\* nothing is executed unless the run is running; else the stage becomes the
\* current stage of the context and a wait group counts its commands (fin
\* records that the stage is executed by cleanup)
StageGuard(g) ==
    /\ At(g, "Stage", "guard")
    /\ LET f == Fr(g)
       IN  IF run.State # ExecStateRunning
           THEN /\ gor' = Ret(g)
                /\ UNCHANGED <<curPar, wgs>>
           ELSE /\ curPar' = [curPar EXCEPT ![f.ctx] = f.stage.parallel]
                /\ wgs' = Append(wgs, [ctx |-> f.ctx, name |-> f.sname, par |-> f.stage.parallel,
                                       n |-> Len(f.stage.cmds), cnt |-> Len(f.stage.cmds), ret |-> FALSE,
                                       allowed |-> 0,
                                       fin |-> Len(gor[g]) > 1 /\ gor[g][Len(gor[g]) - 1].fn = "Finish"])
                /\ gor' = Step(g, [f EXCEPT !.pc = "loop", !.wg = Len(wgs) + 1])
    /\ UNCHANGED <<treeState, varsState, scanState, logState, actFiles, beforeAlls, actFileObjs, callNames, resolved, ctxs, run, info, util, sigs, procs, os>>

\* one turn of the loop: a command is skipped when the run is not running,
\* else it is executed, in a goroutine of its own when the stage is parallel
StageLoop(g) ==
    /\ At(g, "Stage", "loop")
    /\ LET f == Fr(g)
           next == [f EXCEPT !.idx = f.idx + 1]
           cf == CmdFrame(f.ctx, f.stage.cmds[f.idx], f.wg, f.sname)
       IN  /\ f.idx <= Len(f.stage.cmds)
           /\ IF run.State # ExecStateRunning
              THEN /\ wgs' = Done(f.wg)
                   /\ gor' = Step(g, next)
              ELSE /\ gor' = IF f.stage.parallel
                             THEN Append(Step(g, next), <<cf>>)
                             ELSE [gor EXCEPT ![g] = Append(Step(g, next)[g], cf)]
                   /\ UNCHANGED wgs
    /\ UNCHANGED <<treeState, varsState, scanState, logState, actFiles, beforeAlls, actFileObjs, callNames, resolved, ctxs, curPar, run, info, util, sigs, procs, os>>

WaitReturnsAtOnce(w) == TRUE

\* wg.Wait() returns once every command of the stage has released the group
WaitReturns(w) == wgs[w].cnt = 0

\* the loop is over: wg.Wait()
StageWait(g) ==
    /\ At(g, "Stage", "loop")
    /\ Fr(g).idx > Len(Fr(g).stage.cmds)
    /\ WaitReturns(Fr(g).wg)
    /\ wgs' = [wgs EXCEPT ![Fr(g).wg].ret = TRUE]
    /\ gor' = Ret(g)
    /\ UNCHANGED <<treeState, varsState, scanState, logState, actFiles, beforeAlls, actFileObjs, callNames, resolved, ctxs, curPar, run, info, util, sigs, procs, os>>

-----------------------------------------------------------------------------
(* CmdExec *)

\* nothing is executed unless the run is running (the wait group is not
\* released on this path); an act call is resolved and executed in place,
\* a shell line goes on to start its child. An unresolved call with
\* mismatch: allow returns at once, and the wait group keeps count of it
CmdGuard(g) ==
    /\ At(g, "Cmd", "guard")
    /\ LET f == Fr(g)
           r == FindActCtx(actFiles, f.cmd.act, ctxs[f.ctx].file, Given(ctxs[f.ctx]))
           skipped == /\ run.State = ExecStateRunning
                      /\ Len(f.cmd.act) > 0
                      /\ r.status = "error"
                      /\ f.cmd.mismatch = "allow"
       IN  /\ wgs' = IF skipped THEN [wgs EXCEPT ![f.wg].allowed = @ + 1] ELSE wgs
           /\ actFileObjs' = IF run.State = ExecStateRunning /\ Len(f.cmd.act) > 0
                             THEN actFileObjs \o NewActFiles(r.ctx) ELSE actFileObjs
           /\ IF run.State # ExecStateRunning
              THEN /\ gor' = Ret(g)
                   /\ UNCHANGED <<ctxs, curPar, util, sigs, os>>
              ELSE IF Len(f.cmd.act) = 0
              THEN /\ gor' = Goto(g, "start")
                   /\ UNCHANGED <<ctxs, curPar, util, sigs, os>>
              ELSE IF r.status = "ok"
              THEN /\ ctxs' = Append(ctxs, Bound(r.ctx, ctxs[f.ctx].afile, Len(actFileObjs)))
                   /\ curPar' = Append(curPar, FALSE)
                   /\ gor' = Invoke(g, "done", ExecFrame(Len(ctxs) + 1))
                   /\ UNCHANGED <<util, sigs, os>>
              ELSE IF r.status = "error" /\ f.cmd.mismatch = "allow"
              THEN /\ gor' = Ret(g)
                   /\ UNCHANGED <<ctxs, curPar, util, sigs, os>>
              ELSE IF r.status = "error"
              \* utils.FatalError returns, and nextCtx.Args dereferences nil
              THEN /\ \E reached \in BOOLEAN : FatalError(reached)
                   /\ os' = Panic("nextCtx.Args")
                   /\ UNCHANGED <<ctxs, curPar, gor>>
              ELSE /\ os' = Panic("actNames[1:]")
                   /\ UNCHANGED <<ctxs, curPar, gor, util, sigs>>
    /\ UNCHANGED <<treeState, varsState, scanState, logState, actFiles, beforeAlls, callNames, resolved, run, info, procs>>

\* the act called in place has returned: wg.Done()
CmdActDone(g) ==
    /\ At(g, "Cmd", "done")
    /\ wgs' = Done(Fr(g).wg)
    /\ gor' = Ret(g)
    /\ UNCHANGED <<treeState, varsState, scanState, logState, actFiles, beforeAlls, actFileObjs, callNames, resolved, ctxs, curPar, run, info, util, sigs, procs, os>>

\* shCmd.Start(): the child runs in a process group of its own. The record
\* of the child also keeps what was true at its start: whether a fatal error
\* had been raised, whether the run was finishing after flags that did not
\* parse, and how many children of its stage were running
CmdStart(g) ==
    /\ At(g, "Cmd", "start")
    /\ LET f == Fr(g)
       IN  /\ procs' = Append(procs, [ctx |-> f.ctx, sname |-> f.sname, wg |-> f.wg,
                                      code |-> f.cmd.exit, st |-> "running",
                                      afterFail |-> util.KillInProgress,
                                      afterFlag |-> run.flagErr # {} /\ run.IsFinishing,
                                      afterKill |-> \E q \in DOMAIN procs :
                                                        procs[q].st = "killed",
                                      peers |-> Cardinality({q \in DOMAIN procs :
                                                    procs[q].wg = f.wg /\ procs[q].st = "running"}),
                                      listed |-> FALSE, reap |-> "no"])
           /\ gor' = Step(g, [f EXCEPT !.pc = "add", !.pg = Len(procs) + 1])
    /\ UNCHANGED <<treeState, varsState, scanState, logState, actFiles, beforeAlls, actFileObjs, callNames, resolved, wgs, ctxs, curPar, run, info, util, sigs, os>>

\* Info.AddCmdPgid: the process group joins CmdPgids and the descriptor is saved
CmdAdd(g) ==
    /\ At(g, "Cmd", "add")
    /\ info' = [info EXCEPT !.CmdPgids = IF InSeq(Fr(g).pg, @) THEN @ ELSE Append(@, Fr(g).pg),
                            !.dir = TRUE]
    /\ procs' = [procs EXCEPT ![Fr(g).pg].listed = TRUE]
    /\ gor' = Goto(g, "wait")
    /\ UNCHANGED <<treeState, varsState, scanState, logState, actFiles, beforeAlls, actFileObjs, callNames, resolved, wgs, ctxs, curPar, run, util, sigs, os>>

\* shCmd.Wait() returns: unless the run is finishing, a status above zero is
\* logged in a parallel stage and fatal otherwise; a killed child has
\* ExitStatus() -1 and passes in silence
CmdWait(g) ==
    /\ At(g, "Cmd", "wait")
    /\ LET f == Fr(g)
           p == procs[f.pg]
           failed == p.st = "exited" /\ p.code > 0 /\ ~run.IsFinishing
           fatal == failed /\ FailureIsFatal(curPar[f.ctx])
       IN  /\ p.st # "running"
           /\ IF fatal
              THEN \E reached \in BOOLEAN : FatalErrorWithCode(p.code, reached)
              ELSE UNCHANGED <<util, sigs>>
           /\ procs' = [procs EXCEPT ![f.pg].reap =
                            IF fatal THEN "fatal" ELSE IF failed THEN "logged" ELSE "quiet"]
           /\ gor' = Goto(g, "rm")
    /\ UNCHANGED <<treeState, varsState, scanState, logState, actFiles, beforeAlls, actFileObjs, callNames, resolved, wgs, ctxs, curPar, run, info, os>>

\* Info.RmCmdPgid, then wg.Done()
CmdDone(g) ==
    /\ At(g, "Cmd", "rm")
    /\ info' = [info EXCEPT !.CmdPgids = Without(@, Fr(g).pg),
                            !.dir = @ \/ InSeq(Fr(g).pg, info.CmdPgids)]
    /\ wgs' = Done(Fr(g).wg)
    /\ gor' = Ret(g)
    /\ UNCHANGED <<treeState, varsState, scanState, logState, actFiles, beforeAlls, actFileObjs, callNames, resolved, ctxs, curPar, run, util, sigs, procs, os>>

-----------------------------------------------------------------------------
(* Stop, Finish and cleanup *)

\* the signal goroutine of main: one receive from the channel, then cmd.Stop(),
\* which is run.Stop() for the run sub-command
SigRecv ==
    /\ At(2, "sig", "recv")
    /\ sigs.chan = 1
    /\ sigs' = [sigs EXCEPT !.chan = 0]
    /\ gor' = Invoke(2, "done", StopFrame)
    /\ UNCHANGED <<treeState, varsState, scanState, logState, actFiles, beforeAlls, actFileObjs, callNames, resolved, wgs, ctxs, curPar, run, info, util, procs, os>>

\* a mistaken test of Stop that leaves out the test of IsFinishing
StopTestNoFinishing == run.State = ExecStateRunning

\* Stop: !runCtx.IsFinishing && runCtx.State == ExecStateRunning
StopTest == ~run.IsFinishing /\ run.State = ExecStateRunning

\* Stop: its first statement reads runCtx.State, a nil dereference until
\* runCtx is assigned; then it goes on only for a running run not finishing
StopCheck(g) ==
    /\ At(g, "Stop", "check")
    /\ IF ~run.set
       THEN /\ os' = Panic("runCtx.State")
            /\ UNCHANGED gor
       ELSE /\ gor' = IF StopTest
                      THEN Goto(g, IF run.ActCtx # 0 THEN "kill" ELSE "set")
                      ELSE Ret(g)
            /\ UNCHANGED os
    /\ UNCHANGED <<treeState, varsState, scanState, logState, actFiles, beforeAlls, actFileObjs, callNames, resolved, wgs, ctxs, curPar, run, info, util, sigs, procs>>

\* Stop: runCtx.Info.KillChildren()
StopKill(g) ==
    /\ At(g, "Stop", "kill")
    /\ procs' = KilledProcs
    /\ info' = KillChildren
    /\ gor' = Goto(g, "set")
    /\ UNCHANGED <<treeState, varsState, scanState, logState, actFiles, beforeAlls, actFileObjs, callNames, resolved, wgs, ctxs, curPar, run, util, sigs, os>>

\* Stop: runCtx.State = ExecStateStopped
StopSet(g) ==
    /\ At(g, "Stop", "set")
    /\ run' = [run EXCEPT !.State = ExecStateStopped]
    /\ gor' = Ret(g)
    /\ UNCHANGED <<treeState, varsState, scanState, logState, actFiles, beforeAlls, actFileObjs, callNames, resolved, wgs, ctxs, curPar, info, util, sigs, procs, os>>

\* Finish: nothing when already finishing; a run still running ended by
\* itself, its children are killed and its data directory removed; else the
\* run was stopped: it runs again, now finishing, and cleans up
FinishCheck(g) ==
    /\ At(g, "Finish", "check")
    /\ IF run.IsFinishing
       THEN /\ gor' = Ret(g)
            /\ UNCHANGED <<run, info, procs>>
       ELSE IF run.State = ExecStateRunning
       THEN /\ procs' = KilledProcs
            /\ info' = [KillChildren EXCEPT !.dir = FALSE]
            /\ gor' = Ret(g)
            /\ UNCHANGED run
       ELSE /\ run' = [run EXCEPT !.State = ExecStateRunning, !.IsFinishing = TRUE]
            /\ gor' = IF run.ActCtx # 0
                      THEN Step(g, [Fr(g) EXCEPT !.pc = "cleanup", !.idx = Len(run.stack)])
                      ELSE Ret(g)
            /\ UNCHANGED <<info, procs>>
    /\ UNCHANGED <<treeState, varsState, scanState, logState, actFiles, beforeAlls, actFileObjs, callNames, resolved, wgs, ctxs, curPar, util, sigs, os>>

\* cleanup: ctx := stack[i]
CleanupCtx(stack, i) == stack[i]

\* cleanup: the final stage of every context of the call stack, the last
\* pushed first, and then the data directory is removed
Cleanup(g) ==
    /\ At(g, "Finish", "cleanup")
    /\ LET f == Fr(g)
           ctx == CleanupCtx(run.stack, f.idx)
           fin == FinalStage(ctxs[ctx].act)
           next == [f EXCEPT !.idx = f.idx - 1]
       IN  IF f.idx >= 1
           THEN /\ gor' = IF fin.nil THEN Step(g, next)
                          ELSE [gor EXCEPT ![g] = Append(Step(g, next)[g],
                                                    StageFrame(ctx, fin, "final"))]
                /\ UNCHANGED info
           ELSE /\ info' = [info EXCEPT !.dir = FALSE]
                /\ gor' = Ret(g)
    /\ UNCHANGED <<treeState, varsState, scanState, logState, actFiles, beforeAlls, actFileObjs, callNames, resolved, wgs, ctxs, curPar, run, util, sigs, procs, os>>

-----------------------------------------------------------------------------
(* The environment *)

\* SIGINT, SIGTERM or SIGQUIT is sent to the supervisor; signal.Notify drops
\* it when the channel is full (hit records the children running at that
\* time, late counts the signals sent to a finishing run)
Signal ==
    /\ Alive
    /\ sigs.sent < MaxSignals
    /\ sigs' = [sigs EXCEPT !.chan = 1, !.sent = @ + 1,
                             !.hit = @ \cup {p \in DOMAIN procs : procs[p].st = "running"},
                             !.late = IF run.IsFinishing THEN @ + 1 ELSE @]
    /\ UNCHANGED <<treeState, varsState, scanState, logState, actFiles, beforeAlls, actFileObjs, callNames, resolved, gor, wgs, ctxs, curPar, run, info, util, procs, os>>

\* a shell child left alone ends with the status of its command line
ChildExit(p) ==
    /\ Alive
    /\ procs[p].st = "running"
    /\ procs' = [procs EXCEPT ![p].st = "exited"]
    /\ UNCHANGED <<treeState, varsState, scanState, logState, actFiles, beforeAlls, actFileObjs, callNames, resolved, gor, wgs, ctxs, curPar, run, info, util, sigs, os>>

(***************************************************************************)
(* Inputs of the resolver runs: a root manifest, one manifest x.yml that   *)
(* redirect / include edges refer to, and a dotted call.                  *)
(***************************************************************************)
Pats == { <<"a">>, <<"b">>, <<"_">>, <<"a", "b">>, <<"a", ".", "+">>, <<".", "+">> }

Segs == { <<"a">>, <<"b">>, <<"a", "b">>, <<"_">> }

RECURSIVE SeqsUpTo(_, _)
SeqsUpTo(S, n) ==
    IF n = 0 THEN { <<>> }
    ELSE LET shorter == SeqsUpTo(S, n - 1)
         IN  shorter \cup { Append(q, x) : q \in {r \in shorter : Len(r) = n - 1}, x \in S }

Calls == SeqsUpTo(Segs, MaxSegs) \ { <<>> }

Kids == { Leaf(n) : n \in Pats } \cup { Include(IndexName, OtherPath) }

KidLists == { <<k>> : k \in Kids } \cup { <<k, Leaf(n)>> : k \in Kids, n \in {<<"_">>, <<"b">>} }

TopActs ==
    { Leaf(n) : n \in Pats } \cup { Redirect(n, OtherPath) : n \in Pats }
        \cup { Include(n, OtherPath) : n \in Pats }
        \cup { Nested(n, ks) : n \in {<<"a">>, <<".", "+">>}, ks \in KidLists }

RootLists ==
    { <<t>> : t \in TopActs }
        \cup { <<t, Leaf(n)>> : t \in TopActs, n \in Pats }
        \cup { <<Leaf(n), t>> : t \in TopActs, n \in Pats }

OtherLists ==
    { <<Leaf(n)>> : n \in {<<"a">>, <<"b">>, <<"_">>} }
        \cup { <<Leaf(<<"b">>), Leaf(<<".", "+">>)>>, <<Leaf(<<".", "+">>), Leaf(<<"b">>)>>,
               <<Leaf(<<"a">>), Leaf(<<"b">>)>>,
               <<Nested(<<"a">>, <<Leaf(<<"_">>)>>)>>,
               <<Nested(<<"b">>, <<Leaf(<<"a">>)>>)>> }

\* no variable resolver run
InitNoVars ==
    /\ varSrc = <<>>
    /\ dotenv = <<>>
    /\ exported = <<>>

\* no descriptor scan
InitNoScan ==
    /\ dataDir = <<>>
    /\ infos = [op |-> "none"]

\* no log writer
InitNoLog == logWriter = [nil |-> TRUE]

\* no run tree
InitNoTree ==
    /\ runners = <<>>
    /\ store = <<>>
    /\ shells = <<>>
    /\ stopped = {}
    /\ stops = <<>>

\* manifests without before-all stage
NoBeforeAll == [p \in {RootPath, OtherPath} |-> NoStage]

NotResolved == [status |-> "none", ctx |-> NilCtx, target |-> <<>>, path |-> ""]

vars == <<treeState, varsState, scanState, logState, actFiles, beforeAlls, actFileObjs, callNames, resolved, gor, wgs, ctxs, curPar, run, info, util, sigs, procs, os>>

\* the supervisor at the entry of main, its signal goroutine waiting
InitProcess ==
    /\ resolved = NotResolved
    /\ actFileObjs = <<>>
    /\ gor = << <<MainFrame>>, <<SigFrame>> >>
    /\ wgs = <<>>
    /\ ctxs = <<>>
    /\ curPar = <<>>
    /\ run = [set |-> FALSE, State |-> "", IsFinishing |-> FALSE, ActCtx |-> 0, stack |-> <<>>,
              flagErr |-> {}]
    /\ info = [CmdPgids |-> <<>>, IsKilling |-> FALSE, dir |-> FALSE]
    /\ util = [ExitCode |-> 0, KillInProgress |-> FALSE]
    /\ sigs = [chan |-> 0, sent |-> 0, hit |-> {}, quit |-> "", late |-> 0]
    /\ procs = <<>>
    /\ os = [status |-> "alive", code |-> 0, why |-> ""]

InitResolve ==
    /\ actFiles \in { [p \in {RootPath, OtherPath} |-> IF p = RootPath THEN r ELSE o] :
                        r \in RootLists, o \in OtherLists }
    /\ callNames \in Calls
    /\ beforeAlls = NoBeforeAll
    /\ InitNoVars
    /\ InitNoTree
    /\ InitNoScan
    /\ InitNoLog
    /\ InitProcess

\* createRunCtx: the top-level call is resolved against the root manifest
ResolveCall ==
    /\ resolved.status = "none"
    /\ resolved' = FindActCtx(actFiles, callNames, RootPath, NilCtx)
    /\ UNCHANGED <<treeState, varsState, scanState, logState, actFiles, beforeAlls, actFileObjs, callNames, gor, wgs, ctxs, curPar, run, info, util, sigs, procs, os>>

NextResolve == ResolveCall

SpecResolve == InitResolve /\ [][NextResolve]_vars

(***************************************************************************)
(* Inputs of the executor runs: manifests whose acts have stages, and the  *)
(* call of `act run`.                                                      *)
(***************************************************************************)
Files(r, o) == [p \in {RootPath, OtherPath} |-> IF p = RootPath THEN r ELSE o]

\* before, a sequential start stage of two failing commands, final
SeqAct ==
    Act(<<"a">>, "", "", <<>>, SeqStage(<<Sh(0)>>), SeqStage(<<Sh(2), Sh(3)>>),
        SeqStage(<<Sh(0)>>), NoStage)

\* a parallel start stage with one failing command, and a legacy teardown
ParAct ==
    Act(<<"a">>, "", "", <<>>, NoStage, ParStage(<<Sh(2), Sh(0)>>), NoStage, SeqStage(<<Sh(0)>>))

\* a start stage that calls the act named by names in place
CallerAct(names, mm) ==
    Act(<<"a">>, "", "", <<>>, NoStage, SeqStage(<<Call(names, mm), Sh(0)>>),
        SeqStage(<<Sh(0)>>), NoStage)

CalleeAct == Act(<<"c">>, "", "", <<>>, NoStage, SeqStage(<<Sh(2)>>), SeqStage(<<Sh(0)>>), NoStage)

\* a start stage that calls act c of the included manifest twice
TwiceAct ==
    Act(<<"a">>, "", "", <<>>, NoStage,
        SeqStage(<<Call(<< <<"i">>, <<"c">> >>, ""), Call(<< <<"i">>, <<"c">> >>, "")>>),
        NoStage, NoStage)

IncludedAct == Act(<<"c">>, "", "", <<>>, NoStage, SeqStage(<<Sh(0)>>), NoStage, NoStage)

\* an act without start stage
NoStartAct == Act(<<"b">>, "", "", <<>>, NoStage, NoStage, SeqStage(<<Sh(0)>>), NoStage)

\* an act with flags
FlagsAct ==
    WithFlags(Act(<<"f">>, "", "", <<>>, NoStage, SeqStage(<<Sh(0)>>), SeqStage(<<Sh(0)>>), NoStage))

\* a chain of three manifests: act i of the root includes x.yml, whose act j
\* includes y.yml, which holds act c
ChainFiles ==
    [p \in {RootPath, OtherPath, ThirdPath} |->
        IF p = RootPath THEN <<Include(<<"i">>, OtherPath)>>
        ELSE IF p = OtherPath THEN <<Include(<<"j">>, ThirdPath)>>
        ELSE <<IncludedAct>>]

\* the three manifests with a before-all stage of one command each
ChainBeforeAll == [p \in {RootPath, OtherPath, ThirdPath} |-> SeqStage(<<Sh(0)>>)]

\* both manifests with a before-all stage of one command
BothBeforeAll == [p \in {RootPath, OtherPath} |-> SeqStage(<<Sh(0)>>)]

Runs ==
    { [files |-> Files(<<SeqAct>>, <<>>), before |-> NoBeforeAll, call |-> << <<"a">> >>],
      [files |-> Files(<<ParAct>>, <<>>), before |-> NoBeforeAll, call |-> << <<"a">> >>],
      [files |-> Files(<<CallerAct(<< <<"c">> >>, ""), CalleeAct>>, <<>>),
       before |-> NoBeforeAll, call |-> << <<"a">> >>],
      [files |-> Files(<<CallerAct(<< <<"b">> >>, "")>>, <<>>),
       before |-> NoBeforeAll, call |-> << <<"a">> >>],
      [files |-> Files(<<CallerAct(<< <<"b">> >>, "allow")>>, <<>>),
       before |-> NoBeforeAll, call |-> << <<"a">> >>],
      [files |-> Files(<<SeqAct>>, <<>>), before |-> NoBeforeAll, call |-> << <<"b">> >>],
      [files |-> Files(<<Include(<<"a">>, OtherPath)>>, <<Include(IndexName, OtherPath)>>),
       before |-> NoBeforeAll, call |-> << <<"a">> >>],
      [files |-> Files(<<TwiceAct, Include(<<"i">>, OtherPath)>>, <<IncludedAct>>),
       before |-> BothBeforeAll, call |-> << <<"a">> >>],
      [files |-> Files(<<CallerAct(<< <<"b">> >>, ""), NoStartAct>>, <<>>),
       before |-> NoBeforeAll, call |-> << <<"a">> >>],
      [files |-> Files(<<CallerAct(<< <<"f">> >>, ""), FlagsAct>>, <<>>),
       before |-> NoBeforeAll, call |-> << <<"a">> >>],
      [files |-> ChainFiles, before |-> ChainBeforeAll,
       call |-> << <<"i">>, <<"j">>, <<"c">> >>] }

Init ==
    /\ \E r \in Runs : actFiles = r.files /\ beforeAlls = r.before /\ callNames = r.call
    /\ InitNoVars
    /\ InitNoTree
    /\ InitNoScan
    /\ InitNoLog
    /\ InitProcess

Next ==
    \/ CreateRunCtx
    \/ AssignRunCtx
    \/ SetRunning
    \/ RunActCtx
    \/ CallFinish
    \/ OsExit
    \/ SigRecv
    \/ Signal
    \/ \E p \in DOMAIN procs : ChildExit(p)
    \/ \E g \in DOMAIN gor : ExecEnter(g)
    \/ \E g \in DOMAIN gor : ExecFlagError(g)
    \/ \E g \in DOMAIN gor : ExecFlagFinish(g)
    \/ \E g \in DOMAIN gor : ExecFlagFatal(g)
    \/ \E g \in DOMAIN gor : ExecCheck(g)
    \/ \E g \in DOMAIN gor : ExecBefore(g)
    \/ \E g \in DOMAIN gor : ExecStart(g)
    \/ \E g \in DOMAIN gor : ExecFinal(g)
    \/ \E g \in DOMAIN gor : ExecPop(g)
    \/ \E g \in DOMAIN gor : StageGuard(g)
    \/ \E g \in DOMAIN gor : StageLoop(g)
    \/ \E g \in DOMAIN gor : StageWait(g)
    \/ \E g \in DOMAIN gor : CmdGuard(g)
    \/ \E g \in DOMAIN gor : CmdActDone(g)
    \/ \E g \in DOMAIN gor : CmdStart(g)
    \/ \E g \in DOMAIN gor : CmdAdd(g)
    \/ \E g \in DOMAIN gor : CmdWait(g)
    \/ \E g \in DOMAIN gor : CmdDone(g)
    \/ \E g \in DOMAIN gor : StopCheck(g)
    \/ \E g \in DOMAIN gor : StopKill(g)
    \/ \E g \in DOMAIN gor : StopSet(g)
    \/ \E g \in DOMAIN gor : FinishCheck(g)
    \/ \E g \in DOMAIN gor : Cleanup(g)

Spec == Init /\ [][Next]_vars

(***************************************************************************)
(* Variable resolver: GetLocalVars and MergeVars, applied at the entry of  *)
(* every command of a sequential stage. A map is a function from the keys  *)
(* it defines to their values.                                             *)
(***************************************************************************)
MaxCmds == 2

Keys == {"X"}

EmptyMap == [k \in {} |-> ""]

\* for key, val := range varsMap { m[key] = val }
Layer(m, varsMap) ==
    [k \in DOMAIN m \cup DOMAIN varsMap |->
        IF k \in DOMAIN varsMap THEN varsMap[k] ELSE m[k]]

\* for _, varsMap := range varsMapList
RECURSIVE Layers(_, _)
Layers(m, varsMapList) ==
    IF varsMapList = <<>> THEN m
    ELSE Layers(Layer(m, Head(varsMapList)), Tail(varsMapList))

\* MergeVars: os.Environ(), each entry given as strings.Split(kv, "=") gives
\* it; an entry that does not split in two parts is left out
RECURSIVE EnvironVars(_)
EnvironVars(environ) ==
    IF environ = <<>> THEN EmptyMap
    ELSE LET parts == environ[Len(environ)]
             rest  == EnvironVars(SubSeq(environ, 1, Len(environ) - 1))
         IN  IF Len(parts) = 2 THEN Layer(rest, parts[1] :> parts[2]) ELSE rest

\* godotenv.Read of the runtime dotenv: a later line of a key replaces an
\* earlier one
RECURSIVE DotenvRead(_)
DotenvRead(lines) ==
    IF lines = <<>> THEN EmptyMap
    ELSE Layer(DotenvRead(SubSeq(lines, 1, Len(lines) - 1)),
               lines[Len(lines)].key :> lines[Len(lines)].val)

GetLocalVars(src) ==
    Layers(EmptyMap, <<src.ParentVars, src.EnvFileVars, src.ActEnvFileVars, src.Vars>>)

MergeVars(src, lines) ==
    Layer(Layers(EmptyMap, <<EnvironVars(src.environ), src.RunVars, DotenvRead(lines),
                             GetLocalVars(src), src.RunActVars, src.ActVars, src.FlagVals>>),
          "CliArgs" :> src.Args)

\* the spelling of the names that occur as keys and as exported names
Spell ==
    ("X" :> <<"X">>) @@ ("ActEnv" :> <<"A", "c", "t", "E", "n", "v">>) @@
    ("ACT_ENV" :> <<"A", "C", "T", "_", "E", "N", "V">>)

\* the name that is spelled chars
NameOf(chars) == CHOOSE k \in DOMAIN Spell : Spell[k] = chars

\* strings.ToUpper on the letters of these names
ToUpper == ("c" :> "C") @@ ("t" :> "T") @@ ("n" :> "N") @@ ("v" :> "V")

IsLower(c) == c \in DOMAIN ToUpper

IsUpper(c) == c \in {ToUpper[l] : l \in DOMAIN ToUpper} \cup {"A", "E", "X"}

\* matchFirstCap "(.)([A-Z][a-z]+)" and matchAllCap "([a-z0-9])([A-Z])", both
\* replaced by "${1}_${2}": an underscore goes before a capital that is not
\* first and is followed by a small letter, and between a small letter and a
\* capital; then strings.ToUpper
RECURSIVE SnakeUpper(_, _)
SnakeUpper(s, i) ==
    IF i > Len(s) THEN <<>>
    ELSE LET cut == /\ i > 1
                    /\ IsUpper(s[i])
                    /\ \/ i < Len(s) /\ IsLower(s[i + 1])
                       \/ IsLower(s[i - 1])
         IN  (IF cut THEN <<"_">> ELSE <<>>)
             \o <<IF IsLower(s[i]) THEN ToUpper[s[i]] ELSE s[i]>>
             \o SnakeUpper(s, i + 1)

CamelToSnakeUpperCase(str) == NameOf(SnakeUpper(Spell[str], 1))

\* VarsToEnvVars: one entry KEY=value for every variable, the keys of the
\* act-runtime variables and of the flag values in upper snake case and the
\* other keys as they are. The entries come in the order of the iteration
\* of a Go map, which is not fixed: the slice is given as the set of its
\* entries
VarsToEnvVars(src, merged) ==
    LET converted == DOMAIN src.RunActVars \cup DOMAIN src.ActVars \cup DOMAIN src.FlagVals
        theKey(k) == IF k \in converted THEN CamelToSnakeUpperCase(k) ELSE k
    IN  {<<theKey(k), merged[k]>> : k \in DOMAIN merged}

\* shCmd.Env = envars: of the entries of one name the child gets the one
\* that comes last in the slice, which is any of them
CmdEnvs(envars) ==
    {e \in [{kv[1] : kv \in envars} -> {kv[2] : kv \in envars}] :
        \A n \in DOMAIN e : <<n, e[n]>> \in envars}

\* godotenv.Load of the runtime dotenv: the keys that the environment of the
\* supervisor does not have yet are set in it
LoadDotenv(environ, lines) ==
    LET read == DotenvRead(lines)
        has(k) == \E j \in DOMAIN environ : environ[j][1] = k
    IN  IF "X" \in DOMAIN read /\ ~has("X")
        THEN Append(environ, <<"X", read["X"]>>) ELSE environ

\* what the i-th command of the stage appends to $ACT_ENV when it writes X
Written == <<"w1", "w2", "w3">>

\* a source that defines X as val, or nothing
MapsOf(val) == {EmptyMap, "X" :> val}

\* createRunCtx: the act-runtime variables of the run always hold ActEnv,
\* the path of the runtime dotenv of this run
RunActMaps == {Layer(m, "ActEnv" :> "env") : m \in MapsOf("ra")}

\* the environment of the supervisor: no X, X=e, or X=e=e, and with or
\* without the ACT_ENV of an outer run of act
Environs ==
    {x \o a : x \in {<<>>, << <<"X", "e">> >>, << <<"X", "e", "e">> >>},
              a \in {<<>>, << <<"ACT_ENV", "outer">> >>}}

\* the sources of an invocation
VarSrcs ==
    [environ : Environs,
     EnvFileVars : MapsOf("m"), ActEnvFileVars : MapsOf("a"), RunVars : MapsOf("r"),
     ParentVars : MapsOf("p"), Vars : MapsOf("l"), RunActVars : RunActMaps,
     ActVars : MapsOf("av"), FlagVals : MapsOf("f"), Args : {""}]

InitVars ==
    /\ varSrc \in VarSrcs
    /\ dotenv = <<>>
    /\ exported = <<>>
    /\ actFiles = Files(<<>>, <<>>)
    /\ beforeAlls = NoBeforeAll
    /\ callNames = <<>>
    /\ InitNoTree
    /\ InitNoScan
    /\ InitNoLog
    /\ InitProcess

\* CmdExec of the next command of a sequential stage: MergeVars gives the
\* variables the command is exported and VarsToEnvVars its environment, the
\* runtime dotenv is loaded into the
\* environment of the supervisor, then the command runs to its end and has
\* or has not appended a line for X to the runtime dotenv
VarsCmdExec ==
    /\ Len(exported) < MaxCmds
    /\ varSrc' = [varSrc EXCEPT !.environ = LoadDotenv(@, dotenv)]
    /\ \E wrote \in BOOLEAN, env \in CmdEnvs(VarsToEnvVars(varSrc, MergeVars(varSrc, dotenv))) :
          /\ exported' = Append(exported, [vars |-> MergeVars(varSrc, dotenv),
                                            envars |-> VarsToEnvVars(varSrc, MergeVars(varSrc, dotenv)),
                                            env |-> env,
                                            environ |-> varSrc.environ,
                                            runtime |-> DotenvRead(dotenv),
                                            wrote |-> wrote])
          /\ dotenv' = IF wrote
                       THEN Append(dotenv, [key |-> "X", val |-> Written[Len(exported) + 1]])
                       ELSE dotenv
    /\ UNCHANGED <<treeState, scanState, logState, actFiles, beforeAlls, actFileObjs, callNames, resolved, gor, wgs,
                   ctxs, curPar, run, info, util, sigs, procs, os>>

NextVars == VarsCmdExec

SpecVars == InitVars /\ [][NextVars]_vars

(***************************************************************************)
(* The run tree: detached runs and `act stop`.                             *)
(*                                                                         *)
(* A runner is an `act run` process. Its descriptor is the Info it holds   *)
(* in memory; store is what the data directories hold. Info.Kill is run by *)
(* the `act stop` process and works on the descriptors it loads from the   *)
(* store, never on the memory of a runner. A run id is the index of its    *)
(* runner, a process group id the index of its shell, and a name id the    *)
(* list of the names that "::" joins.                                      *)
(*                                                                         *)
(* The runners get no signal here and their acts have one sequential start *)
(* stage of shell commands and detached calls.                             *)
(***************************************************************************)
MaxStops == 1

DetachCmd(name) == [act |-> name, detach |-> TRUE]

ShellCmd == [act |-> "", detach |-> FALSE]

\* the start stages of the manifest: p detaches c and runs one command,
\* c runs two commands
TreeActs == [p |-> <<DetachCmd("c"), ShellCmd>>, c |-> <<ShellCmd, ShellCmd>>]

NilInfo ==
    [Id |-> 0, NameId |-> <<>>, ParentActId |-> 0, ChildActIds |-> <<>>,
     CmdPgids |-> <<>>, IsKilling |-> FALSE]

\* a data directory that is not there: no info.json, no log file
NoFile == [exists |-> FALSE, log |-> FALSE, info |-> NilInfo]

\* the environment of a runner: 0 is a variable that is not set
NoRunEnv == [ACT_PARENT_RUN_ID |-> 0, ACT_RUN_ID |-> 0, ACT_DAEMON |-> FALSE]

\* an `act run` process; daemonPtr is its flag -d
Runner(name, env, setsid, daemonPtr) ==
    [name |-> name, env |-> env, Setsid |-> setsid, daemonPtr |-> daemonPtr,
     pc |-> "create", idx |-> 1, pg |-> 0, Info |-> NilInfo]

\* Info.Save: MkdirAll of the data directory, then the descriptor is written
Save(st, i) == [st EXCEPT ![i.Id].exists = TRUE, ![i.Id].info = i]

\* Info.RmDataDir
RmDataDir(st, id) == [st EXCEPT ![id] = NoFile]

\* syscall.Kill(-pgid, SIGKILL) for every pgid of the list
SigKill(sh, pgids) ==
    [k \in DOMAIN sh |->
        IF InSeq(k, pgids) /\ sh[k].st = "running"
        THEN [sh[k] EXCEPT !.st = "killed"] ELSE sh[k]]

\* a name id that leaves the parent out
ChildNameIdFlat(parentInfo, nameId) == <<nameId>>

\* createRunCtx: the name id of a run that has a parent
ChildNameId(parentInfo, nameId) == Append(parentInfo.NameId, nameId)

\* Info.Kill on the descriptor i, in the world w of the store, the shells
\* and the run ids killed so far
RECURSIVE InfoKill(_, _), KillMarked(_, _), KillEach(_, _)

\* Info.Kill: every child whose descriptor GetInfo finds is killed
KillEach(w, ids) ==
    IF ids = <<>> THEN w
    ELSE KillEach(IF w.store[Head(ids)].exists
                  THEN InfoKill(w, w.store[Head(ids)].info) ELSE w,
                  Tail(ids))

\* Info.SetIsKilling: the flag is set in the descriptor held and saved
SetIsKilling(i) == [i EXCEPT !.IsKilling = TRUE]

\* Info.Kill after SetIsKilling, on the descriptor i it holds: the children,
\* the process groups, the data directory, then the parent
KillMarked(w, i) ==
    LET w2 == KillEach(w, i.ChildActIds)
        w3 == [w2 EXCEPT !.shells = SigKill(@, i.CmdPgids),
                         !.store = RmDataDir(@, i.Id)]
    IN  IF i.ParentActId = 0 THEN w3
        ELSE LET parent == w3.store[i.ParentActId]
                 parentInfo == [parent.info EXCEPT !.ChildActIds = Without(@, i.Id)]
                 w4 == IF InSeq(i.Id, parent.info.ChildActIds)
                       THEN [w3 EXCEPT !.store = Save(@, parentInfo)] ELSE w3
             IN  IF ~parent.exists \/ parent.info.IsKilling THEN w3
                 ELSE IF Len(parentInfo.CmdPgids) > 0 \/ Len(parentInfo.ChildActIds) > 0
                 THEN w4
                 ELSE InfoKill(w4, parentInfo)

InfoKill(w, i) ==
    KillMarked([w EXCEPT !.store = Save(@, SetIsKilling(i)), !.killed = @ \cup {i.Id}],
               SetIsKilling(i))

\* the kill sequence of Info.KillChildren: SIGKILL to every process group of
\* CmdPgids, the same sequence for every child whose descriptor is found,
\* and the descriptor is marked and saved
RECURSIVE KillSeq(_, _), KillSeqEach(_, _)

KillSeqEach(w, ids) ==
    IF ids = <<>> THEN w
    ELSE KillSeqEach(IF w.store[Head(ids)].exists
                     THEN KillSeq(w, w.store[Head(ids)].info) ELSE w,
                     Tail(ids))

KillSeq(w, i) ==
    LET w1 == [w EXCEPT !.shells = SigKill(@, i.CmdPgids)]
        w2 == KillSeqEach(w1, i.ChildActIds)
    IN  [w2 EXCEPT !.store = Save(@, [i EXCEPT !.IsKilling = TRUE])]

\* Info.KillChildActs: the detached children still running are torn down
TreeKillChildActs(w, i) == KillSeqEach(w, i.ChildActIds)

World == [store |-> store, shells |-> shells, killed |-> stopped]

-----------------------------------------------------------------------------
TreeUnchanged ==
    UNCHANGED <<varsState, scanState, logState, actFiles, beforeAlls, actFileObjs, callNames, resolved, gor, wgs,
                ctxs, curPar, run, info, util, sigs, procs, os>>

\* `act run p` or `act run -d p` from a terminal: one runner, no data
\* directory yet
InitTree ==
    /\ \E daemonPtr \in BOOLEAN : runners = <<Runner("p", NoRunEnv, FALSE, daemonPtr)>>
    /\ store = <<NoFile>>
    /\ shells = <<>>
    /\ stopped = {}
    /\ stops = <<>>
    /\ InitNoVars
    /\ actFiles = Files(<<>>, <<>>)
    /\ beforeAlls = NoBeforeAll
    /\ callNames = <<>>
    /\ InitNoScan
    /\ InitNoLog
    /\ InitProcess

\* createRunCtx and RunCmdExec up to Info.Save: the id is ACT_RUN_ID or a
\* fresh one; with ACT_PARENT_RUN_ID the descriptor of the parent is loaded
\* for the name id, and a parent that is not found is a nil dereference
TreeCreateRunCtx(r) ==
    /\ runners[r].pc = "create"
    /\ ~runners[r].daemonPtr
    /\ LET env == runners[r].env
           id == IF env.ACT_RUN_ID # 0 THEN env.ACT_RUN_ID ELSE r
           own == [NilInfo EXCEPT !.Id = id, !.NameId = <<runners[r].name>>]
           parent == store[env.ACT_PARENT_RUN_ID]
       IN  IF env.ACT_PARENT_RUN_ID = 0
           THEN /\ runners' = [runners EXCEPT ![r].Info = own, ![r].pc = "cmds"]
                /\ store' = Save(store, own)
           ELSE IF ~parent.exists
           THEN /\ runners' = [runners EXCEPT ![r].pc = "panic"]
                /\ UNCHANGED store
           ELSE LET child == [own EXCEPT !.ParentActId = env.ACT_PARENT_RUN_ID,
                                         !.NameId = ChildNameId(parent.info, runners[r].name)]
                IN  /\ runners' = [runners EXCEPT ![r].Info = child, ![r].pc = "cmds"]
                    /\ store' = Save(store, child)
    /\ UNCHANGED <<shells, stopped, stops>>
    /\ TreeUnchanged

\* createRunCtx and RunCmdExec with -d: the launcher reserves a run id, makes
\* the data directory and the log file, starts the daemon runner in its own
\* session with ACT_RUN_ID and ACT_DAEMON, and saves no descriptor
DaemonExec(r) ==
    /\ runners[r].pc = "create"
    /\ runners[r].daemonPtr
    /\ LET own == [NilInfo EXCEPT !.Id = r, !.NameId = <<runners[r].name>>]
           env == [ACT_PARENT_RUN_ID |-> 0, ACT_RUN_ID |-> r, ACT_DAEMON |-> TRUE]
       IN  /\ runners' = Append([runners EXCEPT ![r].Info = own, ![r].pc = "finish"],
                                Runner(runners[r].name, env, TRUE, FALSE))
           /\ store' = Append([store EXCEPT ![r].log = TRUE], NoFile)
    /\ UNCHANGED <<shells, stopped, stops>>
    /\ TreeUnchanged

\* actDetachExec: the child runner is started in its own session with the
\* two ids in its environment, its id is added to ChildActIds and saved,
\* and the command is done
ActDetachExec(r) ==
    /\ runners[r].pc = "cmds"
    /\ runners[r].idx <= Len(TreeActs[runners[r].name])
    /\ TreeActs[runners[r].name][runners[r].idx].detach
    /\ LET childId == Len(runners) + 1
           env == [ACT_PARENT_RUN_ID |-> runners[r].Info.Id, ACT_RUN_ID |-> childId,
                   ACT_DAEMON |-> FALSE]
           i == [runners[r].Info EXCEPT !.ChildActIds = Append(@, childId)]
       IN  /\ runners' = Append([runners EXCEPT ![r].Info = i, ![r].idx = @ + 1],
                                Runner(TreeActs[runners[r].name][runners[r].idx].act, env, TRUE, FALSE))
           /\ store' = Save(Append(store, NoFile), i)
    /\ UNCHANGED <<shells, stopped, stops>>
    /\ TreeUnchanged

\* CmdExec of a shell command up to Wait: the child is started in its own
\* process group, which is added to CmdPgids and saved
TreeCmdStart(r) ==
    /\ runners[r].pc = "cmds"
    /\ runners[r].idx <= Len(TreeActs[runners[r].name])
    /\ ~TreeActs[runners[r].name][runners[r].idx].detach
    /\ LET pgid == Len(shells) + 1
           i == [runners[r].Info EXCEPT !.CmdPgids = Append(@, pgid)]
       IN  /\ shells' = Append(shells, [run |-> r, st |-> "running",
                                         afterStop |-> runners[r].Info.Id \in stopped])
           /\ runners' = [runners EXCEPT ![r].Info = i, ![r].pc = "wait", ![r].pg = pgid]
           /\ store' = Save(store, i)
    /\ UNCHANGED <<stopped, stops>>
    /\ TreeUnchanged

\* the shell child ends by itself
ShellExit(k) ==
    /\ shells[k].st = "running"
    /\ shells' = [shells EXCEPT ![k].st = "done"]
    /\ UNCHANGED <<runners, store, stopped, stops>>
    /\ TreeUnchanged

\* CmdExec after Wait: a child that was killed has exit status -1, which is
\* no failure; the process group is removed from CmdPgids and saved
TreeCmdWait(r) ==
    /\ runners[r].pc = "wait"
    /\ shells[runners[r].pg].st # "running"
    /\ LET i == [runners[r].Info EXCEPT !.CmdPgids = Without(@, runners[r].pg)]
       IN  /\ runners' = [runners EXCEPT ![r].Info = i, ![r].pc = "cmds",
                                         ![r].idx = @ + 1, ![r].pg = 0]
           /\ store' = Save(store, i)
    /\ UNCHANGED <<shells, stopped, stops>>
    /\ TreeUnchanged

\* ActRunCtx.Exec after the start stage of the main act: the detached
\* children are released
TreeExecEnd(r) ==
    /\ runners[r].pc = "cmds"
    /\ runners[r].idx > Len(TreeActs[runners[r].name])
    /\ LET w == TreeKillChildActs(World, runners[r].Info)
       IN  /\ store' = w.store
           /\ shells' = w.shells
    /\ runners' = [runners EXCEPT ![r].pc = "finish"]
    /\ UNCHANGED <<stopped, stops>>
    /\ TreeUnchanged

\* Finish of a run that ended by itself and os.Exit: KillChildren, RmDataDir
TreeFinish(r) ==
    /\ runners[r].pc = "finish"
    /\ LET w == KillSeq(World, runners[r].Info)
       IN  /\ store' = RmDataDir(w.store, runners[r].Info.Id)
           /\ shells' = w.shells
    /\ runners' = [runners EXCEPT ![r].pc = "exited", ![r].Info.IsKilling = TRUE]
    /\ UNCHANGED <<stopped, stops>>
    /\ TreeUnchanged

\* StopCmdExec: `act stop <id>` of a run whose descriptor is found, up to
\* the first statement of Info.Kill: the descriptor is loaded, marked
\* is_killing and saved
StopCmdExec(id) ==
    /\ Len(stops) < MaxStops
    /\ store[id].exists
    /\ store' = Save(store, SetIsKilling(store[id].info))
    /\ stopped' = stopped \cup {id}
    /\ stops' = Append(stops, [info |-> SetIsKilling(store[id].info), pc |-> "kill"])
    /\ UNCHANGED <<runners, shells>>
    /\ TreeUnchanged

\* the rest of Info.Kill in the `act stop` process, on the descriptor it
\* loaded: the descriptors of the children and of the parent are read from
\* the data directory as it is by now
StopCmdKill(s) ==
    /\ stops[s].pc = "kill"
    /\ LET w == KillMarked(World, stops[s].info)
       IN  /\ store' = w.store
           /\ shells' = w.shells
           /\ stopped' = w.killed
    /\ stops' = [stops EXCEPT ![s].pc = "done"]
    /\ UNCHANGED runners
    /\ TreeUnchanged

\* GetAllInfo: every directory of the data directory that holds no
\* info.json is removed, the log file in it included
GetAllInfo(st) == [id \in DOMAIN st |-> IF st[id].exists THEN st[id] ELSE NoFile]

\* ListCmdExec: `act list` scans the data directory. The lookups of GetInfo
\* prune in the same way up to the descriptor they look for; in these runs
\* no directory without info.json exists next to a descriptor, so the
\* lookups of the other actions find nothing to prune
ListCmdExec ==
    /\ GetAllInfo(store) # store
    /\ store' = GetAllInfo(store)
    /\ UNCHANGED <<runners, shells, stopped, stops>>
    /\ TreeUnchanged

NextTree ==
    \/ \E r \in DOMAIN runners : TreeCreateRunCtx(r)
    \/ \E r \in DOMAIN runners : DaemonExec(r)
    \/ \E r \in DOMAIN runners : ActDetachExec(r)
    \/ \E r \in DOMAIN runners : TreeCmdStart(r)
    \/ \E r \in DOMAIN runners : TreeCmdWait(r)
    \/ \E r \in DOMAIN runners : TreeExecEnd(r)
    \/ \E r \in DOMAIN runners : TreeFinish(r)
    \/ \E k \in DOMAIN shells : ShellExit(k)
    \/ \E id \in DOMAIN store : StopCmdExec(id)
    \/ \E s \in DOMAIN stops : StopCmdKill(s)
    \/ ListCmdExec

SpecTree == InitTree /\ [][NextTree]_vars

(***************************************************************************)
(* Descriptor scans: loadInfoFromFile, GetAllInfo and GetInfo over a data  *)
(* directory as an earlier run, a crash or a write under way has left it.  *)
(* A directory is named after its run id; ReadDir lists the directories in *)
(* the order of their names, which is the order of dataDir.                *)
(***************************************************************************)
MaxDirs == 3

\* the run id and the name id of the run of the d-th directory
DirId(d) == <<"id", d>>

DirNameId(d) == <<"name", d>>

\* what a directory holds: no directory at all ("nodir"), a directory
\* without info.json ("none"), an info.json that is the descriptor of the
\* run ("json"), an info.json whose bytes are not JSON, such as an empty or
\* cut file ("syntax"), and an info.json that is a JSON object whose NameId
\* has the wrong type ("mistyped")
FileKinds == {"nodir", "none", "json", "syntax", "mistyped"}

NoInfo == [nil |-> TRUE, Id |-> <<>>, NameId |-> <<>>]

\* var info Info: the zero value
ZeroInfo == [nil |-> FALSE, Id |-> <<>>, NameId |-> <<>>]

\* loadInfoFromFile: nil when os.Stat fails; else the file is read and
\* json.Unmarshal fills the struct, and its error is dropped: bytes that are
\* not JSON leave the zero value, a field of the wrong type is skipped and
\* the other fields are filled; the pointer to the struct is returned
LoadInfoFromFile(dir, d) ==
    IF dir[d] \in {"nodir", "none"} THEN NoInfo
    ELSE IF dir[d] = "json" THEN [nil |-> FALSE, Id |-> DirId(d), NameId |-> DirNameId(d)]
    ELSE IF dir[d] = "mistyped" THEN [nil |-> FALSE, Id |-> DirId(d), NameId |-> <<>>]
    ELSE ZeroInfo

\* os.RemoveAll(dirPath) of the directories of ds
RemoveAll(dir, ds) == [d \in DOMAIN dir |-> IF d \in ds THEN "nodir" ELSE dir[d]]

\* the directories that ReadDir lists
ReadDir(dir) == {d \in DOMAIN dir : dir[d] # "nodir"}

\* GetAllInfo: every directory is loaded; one that gives nil is removed, the
\* others are returned in the order of the directories
AllInfos(dir) ==
    LET found == SelectSeq([d \in DOMAIN dir |-> d],
                           LAMBDA d : d \in ReadDir(dir) /\ ~LoadInfoFromFile(dir, d).nil)
    IN  [i \in DOMAIN found |-> LoadInfoFromFile(dir, found[i])]

\* GetInfo: the directories are loaded in turn up to the first one whose
\* NameId or Id is the name: 0 when there is none
FirstInfo(dir, name) ==
    LET hits == {d \in ReadDir(dir) :
                    LET i == LoadInfoFromFile(dir, d)
                    IN  ~i.nil /\ (i.NameId = name \/ i.Id = name)}
    IN  IF hits = {} THEN 0 ELSE SetMin(hits)

\* the directories a scan has loaded: all of them, or those up to the match
Visited(dir, upto) == {d \in ReadDir(dir) : upto = 0 \/ d <= upto}

\* the directories a scan removes
Nils(dir, upto) == {d \in Visited(dir, upto) : LoadInfoFromFile(dir, d).nil}

\* the names asked for: the id or the name id of a directory, the empty
\* name and a name no run has
ScanNames == {DirId(d) : d \in 1..MaxDirs} \cup {DirNameId(d) : d \in 1..MaxDirs}
             \cup {<<>>, <<"name", 0>>}

InitScan ==
    /\ dataDir \in [1..MaxDirs -> FileKinds]
    /\ infos = [op |-> "none"]
    /\ InitNoLog
    /\ InitNoVars
    /\ InitNoTree
    /\ actFiles = Files(<<>>, <<>>)
    /\ beforeAlls = NoBeforeAll
    /\ callNames = <<>>
    /\ InitProcess

ScanUnchanged ==
    UNCHANGED <<treeState, varsState, logState, actFiles, beforeAlls, actFileObjs, callNames,
                resolved, gor, wgs, ctxs, curPar, run, info, util, sigs, procs, os>>

\* GetAllInfo()
GetAllInfoCall ==
    /\ infos.op = "none"
    /\ infos' = [op |-> "GetAllInfo", before |-> dataDir, visited |-> Visited(dataDir, 0),
                 result |-> AllInfos(dataDir)]
    /\ dataDir' = RemoveAll(dataDir, Nils(dataDir, 0))
    /\ ScanUnchanged

\* GetInfo(name)
GetInfoCall(name) ==
    /\ infos.op = "none"
    /\ LET m == FirstInfo(dataDir, name)
       IN  /\ infos' = [op |-> "GetInfo", before |-> dataDir, visited |-> Visited(dataDir, m),
                        result |-> IF m = 0 THEN <<>> ELSE <<LoadInfoFromFile(dataDir, m)>>]
           /\ dataDir' = RemoveAll(dataDir, Nils(dataDir, m))
    /\ ScanUnchanged

NextScan ==
    \/ GetAllInfoCall
    \/ \E name \in ScanNames : GetInfoCall(name)

SpecScan == InitScan /\ [][NextScan]_vars

(***************************************************************************)
(* Prefixing line writer: LogWriter over a bytes.Buffer.  A byte is a      *)
(* letter or the newline "nl"; what the writer prints (to the screen and   *)
(* to the log file alike) is kept in out, one entry per call of out(),     *)
(* with the prefix "<name-id> | <time> " abstracted to the flag prefixed.  *)
(* written and op are history: the bytes handed to Write so far, and the   *)
(* last call made.                                                         *)
(***************************************************************************)
MaxChunk == 2
MaxWrites == 3
MaxFlushes == 2

Bytes == {"a", "b", "nl"}

\* the slices a command may hand to Write
Chunks == UNION {[1..n -> Bytes] : n \in 1..MaxChunk}

\* bytes.IndexByte: the first index of delim in b, 0 when there is none
IndexByte(b, delim) ==
    IF \E i \in DOMAIN b : b[i] = delim
    THEN CHOOSE i \in DOMAIN b : b[i] = delim /\ \A j \in 1..(i - 1) : b[j] # delim
    ELSE 0

\* bytes.Buffer.ReadString: the bytes up to and including the first delim;
\* without a delim, all the bytes there are and io.EOF. The bytes returned
\* are read, in both cases: they are no longer in the buffer.
ReadString(b, delim) ==
    LET i == IndexByte(b, delim)
        end == IF i = 0 THEN Len(b) ELSE i
    IN  [line |-> SubSeq(b, 1, end), rest |-> SubSeq(b, end + 1, Len(b)), eof |-> i = 0]

\* bytes.Buffer.Read(p): copies min(len(p), len(b)) bytes into p and reads
\* them off the buffer
BufRead(b, n) ==
    LET k == IF n < Len(b) THEN n ELSE Len(b)
    IN  [p |-> SubSeq(b, 1, k), rest |-> SubSeq(b, k + 1, Len(b))]

\* NewLogWriter(ctx), and l.Detached as the caller sets it
NewLogWriter(detached) ==
    [nil |-> FALSE, Detached |-> detached, buf |-> <<>>, out |-> <<>>,
     written |-> <<>>, op |-> "new", writes |-> 0, flushes |-> 0]

\* l.out(str)
out(l, str) == [l EXCEPT !.out = Append(@, [prefixed |-> ~l.Detached, str |-> str])]

\* l.OutputLines(): prints line after line until ReadString reports io.EOF;
\* the bytes ReadString returned with io.EOF are not printed and not put back
RECURSIVE OutputLines(_)
OutputLines(l) ==
    LET r == ReadString(l.buf, "nl")
    IN  IF r.eof
        THEN [l EXCEPT !.buf = r.rest]
        ELSE OutputLines(out([l EXCEPT !.buf = r.rest], r.line))

\* l.Write(p)
Write(l, p) == OutputLines([l EXCEPT !.buf = @ \o p])

\* l.Flush(): p is a nil slice, so Read takes nothing off the buffer and
\* the string printed is empty
Flush(l) ==
    LET r == BufRead(l.buf, 0)
    IN  out([l EXCEPT !.buf = r.rest], r.p)

\* l.Close()
Close(l) == [Flush(l) EXCEPT !.buf = <<>>]

InitLog ==
    /\ logWriter \in {NewLogWriter(d) : d \in BOOLEAN}
    /\ InitNoScan
    /\ InitNoVars
    /\ InitNoTree
    /\ actFiles = Files(<<>>, <<>>)
    /\ beforeAlls = NoBeforeAll
    /\ callNames = <<>>
    /\ InitProcess

LogUnchanged ==
    UNCHANGED <<treeState, varsState, scanState, actFiles, beforeAlls, actFileObjs, callNames,
                resolved, gor, wgs, ctxs, curPar, run, info, util, sigs, procs, os>>

\* the command writes p to its standard output or standard error
WriteCall(p) ==
    /\ logWriter.writes < MaxWrites
    /\ logWriter' = [Write(logWriter, p) EXCEPT !.written = @ \o p, !.op = "write", !.writes = @ + 1]
    /\ LogUnchanged

FlushCall ==
    /\ logWriter.flushes < MaxFlushes
    /\ logWriter' = [Flush(logWriter) EXCEPT !.op = "flush", !.flushes = @ + 1]
    /\ LogUnchanged

CloseCall ==
    /\ logWriter.flushes < MaxFlushes
    /\ logWriter' = [Close(logWriter) EXCEPT !.op = "close", !.flushes = @ + 1]
    /\ LogUnchanged

NextLog ==
    \/ \E p \in Chunks : WriteCall(p)
    \/ FlushCall
    \/ CloseCall

SpecLog == InitLog /\ [][NextLog]_vars

(***************************************************************************)
(* Properties of the resolver, checked under SpecResolve.                  *)
(***************************************************************************)
Root == actFiles[RootPath]

Other == actFiles[OtherPath]

MatchSet(acts, target) == {i \in 1..Len(acts) : RxMatch(acts[i].name, target)}

\* the root acts whose anchored pattern matches the first segment of the call
RootMatches == MatchSet(Root, callNames[1])

EarliestRoot == SetMin(RootMatches)

\* an act without redirect, include and nested acts
IsPlain(act) == act.redirect = "" /\ act.include = "" /\ act.acts = <<>>

\* the target looked up below the first matched act
SecondTarget == IF Len(callNames) >= 2 THEN callNames[2] ELSE IndexName

\* two resolutions that end at the same act (or in the same error)
SameOutcome(r1, r2) ==
    /\ r1.status = r2.status
    /\ r1.ctx.pos = r2.ctx.pos
    /\ r1.ctx.act = r2.ctx.act
    /\ r1.target = r2.target
    /\ r1.path = r2.path

Resolving == resolved.status # "none" /\ RootMatches # {}

\* C6: candidates are matched in declaration order with the anchored regex
\* ^name$ and the first match wins: when several root acts match the first
\* segment the resolved act is (or lies below) the earliest declared one, and
\* the same holds among the nested acts of a matched act.
C6_DeclarationOrder ==
    Resolving =>
        LET i == EarliestRoot
            kids == Root[i].acts
        IN  /\ IsPlain(Root[i]) =>
                  /\ resolved.status = "ok"
                  /\ resolved.ctx.pos = <<RootPath, i>>
                  /\ resolved.ctx.act = Root[i]
            /\ (resolved.status = "ok" /\ resolved.ctx.pos[1] = RootPath) =>
                  resolved.ctx.pos[2] = i
            /\ (resolved.status = "ok" /\ resolved.ctx.pos[1] = RootPath
                    /\ Len(resolved.ctx.pos) = 3) =>
                  resolved.ctx.pos[3] = SetMin(MatchSet(kids, SecondTarget))

\* C6 witness: `a.+` declared before `ab`, both match the call `ab`, and the
\* call resolved to the first one.
C6_Witness ==
    /\ resolved.status = "ok"
    /\ callNames = << <<"a", "b">> >>
    /\ Len(Root) = 2
    /\ Root[1].name = <<"a", ".", "+">>
    /\ Root[2].name = <<"a", "b">>
    /\ RootMatches = {1, 2}
    /\ resolved.ctx.pos = <<RootPath, 1>>

\* C7: a matched redirect act resolves the unchanged segment list in the
\* referenced manifest; a matched include act resolves the list without its
\* first segment there.
C7_RedirectKeepsIncludeConsumes ==
    Resolving =>
        LET r == Root[EarliestRoot]
            viaRedirect == FindActCtx(actFiles, callNames, r.redirect, NilCtx)
            viaInclude  == FindActCtx(actFiles, Tail(callNames), r.include, NilCtx)
            m1 == MatchSet(Other, callNames[1])
            m2 == MatchSet(Other, SecondTarget)
        IN  /\ r.redirect # "" =>
                  /\ SameOutcome(resolved, viaRedirect)
                  /\ (m1 # {} /\ IsPlain(Other[SetMin(m1)])) =>
                        /\ resolved.status = "ok"
                        /\ resolved.ctx.pos = <<r.redirect, SetMin(m1)>>
            /\ (r.redirect = "" /\ r.include # "" /\ Len(callNames) >= 2) =>
                  /\ SameOutcome(resolved, viaInclude)
                  /\ (m2 # {} /\ IsPlain(Other[SetMin(m2)])) =>
                        /\ resolved.status = "ok"
                        /\ resolved.ctx.pos = <<r.include, SetMin(m2)>>

\* C7 witness: `a: redirect: x.yml`, x.yml declares `a`, the call `a`
\* resolved to act `a` of x.yml.
C7_Witness ==
    /\ resolved.status = "ok"
    /\ callNames = << <<"a">> >>
    /\ Root[1] = Redirect(<<"a">>, OtherPath)
    /\ Other[1].name = <<"a">>
    /\ resolved.ctx.pos = <<OtherPath, 1>>
    /\ resolved.ctx.callId = << <<"a">>, <<"a">> >>

\* C8: an empty segment list is resolved with target `_`: when the call ends
\* at an act with nested acts the lookup goes on among its children with target
\* `_` (with the next segment when there is one); the first matching child is
\* the resolution, and without a matching child the resolution fails.
C8_IndexChild ==
    Resolving =>
        LET i == EarliestRoot
            r == Root[i]
            km == MatchSet(r.acts, SecondTarget)
        IN  (r.redirect = "" /\ r.include = "" /\ r.acts # <<>>) =>
                /\ km = {} =>
                      /\ resolved.status = "error"
                      /\ resolved.target = SecondTarget
                      /\ resolved.path = RootPath
                /\ (km # {} /\ IsPlain(r.acts[SetMin(km)])) =>
                      /\ resolved.status = "ok"
                      /\ resolved.ctx.pos = <<RootPath, i, SetMin(km)>>
                      /\ resolved.ctx.actName = SecondTarget

\* C8 witness: the call `a` names an act with nested acts whose second child is
\* `_`; the call resolved to that child, with `_` as its act name.
C8_Witness ==
    /\ resolved.status = "ok"
    /\ callNames = << <<"a">> >>
    /\ Root[1].name = <<"a">>
    /\ Len(Root[1].acts) = 2
    /\ Root[1].acts[1].name = <<"b">>
    /\ resolved.ctx.pos = <<RootPath, 1, 2>>
    /\ resolved.ctx.act.name = IndexName
    /\ resolved.ctx.actName = IndexName

\* C32: the resolver descends into the nested acts of a matched act only
\* when a segment follows the matched one: a call that ends at an act with
\* nested acts none of which matches `_` resolves to that act itself, and a
\* call with a further segment resolves among the children.
C32_NestedOnlyWithMoreSegments ==
    Resolving =>
        LET i == EarliestRoot
            r == Root[i]
            km == MatchSet(r.acts, SecondTarget)
        IN  (r.redirect = "" /\ r.include = "" /\ r.acts # <<>>) =>
                /\ (Len(callNames) = 1 /\ km = {}) =>
                      /\ resolved.status = "ok"
                      /\ resolved.ctx.pos = <<RootPath, i>>
                /\ (Len(callNames) > 1 /\ km # {} /\ IsPlain(r.acts[SetMin(km)])) =>
                      /\ resolved.status = "ok"
                      /\ resolved.ctx.pos = <<RootPath, i, SetMin(km)>>

StageRan(c, name) ==
    \E w \in DOMAIN wgs :
        /\ wgs[w].ctx = c
        /\ wgs[w].name = name
        /\ wgs[w].ret
        /\ Cardinality({p \in DOMAIN procs : procs[p].wg = w}) = wgs[w].n

Rank(name) == IF name = "before" THEN 1 ELSE IF name = "start" THEN 2 ELSE 3

\* the signal goroutine has received a signal and cmd.Stop() has returned
StopReturned == Len(gor[2]) = 1 /\ gor[2][1].pc = "done"

\* the signal goroutine has not received anything
NeverSignalled == gor[2] = <<SigFrame>> /\ sigs.chan = 0

\* the start-stage children that were running when the environment sent a signal
HitStart == {p \in sigs.hit : procs[p].sname = "start"}

\* the call of `act run`, or an act call in place, has not been resolved
UnresolvedCall == resolved.status = "error" \/ os.why = "nextCtx.Args"

\* C1: once a command of a sequential stage has been seen to exit with a
\* non-zero status, no later command of that stage and no further command of a
\* before or start stage is started: a child started after the fatal error
\* belongs to a final stage, and to another stage than the failed command.
C1_NoCommandAfterFailure ==
    \A p \in DOMAIN procs :
        procs[p].afterFail =>
            /\ procs[p].sname = "final"
            /\ \A q \in 1..(p - 1) : procs[q].reap = "fatal" => procs[q].wg # procs[p].wg

\* C2: when a command of a sequential start stage has failed with status c,
\* the final stage of its act has run when the process exits, and the exit
\* code of the process is c.
C2_FailedStartExitCode ==
    os.status = "exit" =>
        \A p \in DOMAIN procs :
            (procs[p].sname = "start" /\ procs[p].reap = "fatal") =>
                /\ os.code = procs[p].code
                /\ StageRan(procs[p].ctx, "final")

\* C3: a signal that arrives while a start command is running gets that child
\* killed by the handler; the final stage of the interrupted act has run and
\* the data directory is gone when the process exits.
C3_SignalDuringStart ==
    /\ StopReturned => \A p \in HitStart : procs[p].st # "running"
    /\ os.status = "exit" =>
        \A p \in HitStart : StageRan(procs[p].ctx, "final") /\ ~info.dir

\* Exec is handling an error of flag.Parse
FlagError ==
    \E g \in DOMAIN gor : \E i \in DOMAIN gor[g] :
        gor[g][i].fn = "Exec" /\ gor[g][i].pc \in {"flagfinish", "flagfatal"}

\* Exec may have handled an error of flag.Parse: an act with flags was
\* called and the run is finishing
FlagErrorHandled == run.IsFinishing /\ \E c \in DOMAIN ctxs : ctxs[c].act.flags

\* C4: a parallel stage returns only after every command it started has
\* finished and been waited for; a failed command of a parallel stage is never
\* fatal: the exit code and the kill flag change only through a fatal error
\* of a sequential command, of a resolution or of the flags of an act, and
\* without such an error and without a signal the run is never stopped and no child is killed; a run
\* that was never stopped has started every command of a parallel stage that
\* returned.
C4_ParallelFailureOnlyLogged ==
    /\ \A w \in DOMAIN wgs : wgs[w].ret =>
          \A p \in DOMAIN procs :
              procs[p].wg = w => (procs[p].st # "running" /\ procs[p].reap # "no")
    /\ \A p \in DOMAIN procs : wgs[procs[p].wg].par => procs[p].reap # "fatal"
    /\ util.ExitCode # 0 => util.KillInProgress
    /\ util.KillInProgress =>
          (UnresolvedCall \/ FlagErrorHandled \/ \E p \in DOMAIN procs : procs[p].reap = "fatal")
    /\ (~util.KillInProgress /\ ~FlagError /\ sigs.sent = 0) =>
          /\ run.State # ExecStateStopped
          /\ ~run.IsFinishing
          /\ \A p \in DOMAIN procs : procs[p].st # "killed"
          /\ \A w \in DOMAIN wgs : (wgs[w].par /\ wgs[w].ret) =>
                Cardinality({p \in DOMAIN procs : procs[p].wg = w}) = wgs[w].n

\* a run of the parallel start stage has ended with exit code 0: one command
\* failed and was logged, the other was started while the first was running
\* and ran to completion
C4_Witness ==
    /\ os.status = "exit"
    /\ os.code = 0
    /\ sigs.sent = 0
    /\ \E p, q \in DOMAIN procs :
          /\ procs[p].wg = procs[q].wg
          /\ wgs[procs[p].wg].par
          /\ procs[p].reap = "logged"
          /\ procs[q].peers > 0
          /\ procs[q].st = "exited"
          /\ procs[q].reap = "quiet"

\* C5: the stages of one invocation are strictly ordered: whenever a command
\* of a later stage has been started, every command of an earlier stage of the
\* same invocation that was started before it has finished, and unless the
\* later stage is run by the cleanup of a stopped run, no command of an
\* earlier stage is started after it (before, then start, then final or the
\* legacy teardown).
C5_StageOrder ==
    \A p, q \in DOMAIN procs :
        (procs[p].ctx = procs[q].ctx /\ Rank(procs[p].sname) < Rank(procs[q].sname)) =>
            /\ ~wgs[procs[q].wg].fin => p < q
            /\ p < q => procs[p].st # "running"

\* an invocation that was never stopped has run before, start and final
C5_Witness ==
    /\ os.status = "exit"
    /\ NeverSignalled
    /\ \E p, q, r \in DOMAIN procs :
          /\ procs[p].ctx = procs[q].ctx
          /\ procs[q].ctx = procs[r].ctx
          /\ procs[p].sname = "before"
          /\ procs[q].sname = "start"
          /\ procs[r].sname = "final"

\* C10: a call that is not resolved (the call of `act run`, or an act call in
\* place without mismatch: allow) is fatal: the process exits with code 1.
C10_UnresolvedCallExitsOne ==
    (os.status # "alive" /\ UnresolvedCall) => (os.status = "exit" /\ os.code = 1)

\* no goroutine is executing a command of the stage of wait group w
NoCmdOf(w) ==
    \A g \in DOMAIN gor : \A i \in DOMAIN gor[g] :
        ~(gor[g][i].fn = "Cmd" /\ gor[g][i].wg = w)

\* goroutine g is in wg.Wait() of a stage that has handed out all its commands
InWait(g) ==
    /\ Len(gor[g]) > 0
    /\ Fr(g).fn = "Stage"
    /\ Fr(g).pc = "loop"
    /\ Fr(g).idx > Len(Fr(g).stage.cmds)

\* C11: an unresolved act call with mismatch: allow is a no-op: it raises no
\* error and leaves the exit code alone, and its stage completes: in a run
\* that no signal reaches, once every command of a stage that skipped such a
\* call has returned, wg.Wait() of the stage returns.
C11_MismatchAllowIsNoOp ==
    \A g \in DOMAIN gor :
        (/\ Alive
         /\ NeverSignalled
         /\ InWait(g)
         /\ wgs[Fr(g).wg].allowed > 0
         /\ NoCmdOf(Fr(g).wg)) =>
            /\ WaitReturns(Fr(g).wg)
            /\ (~util.KillInProgress => util.ExitCode = 0)

\* the contexts that ExecBeforeAll has made for the before-all stage of the
\* manifest at path, and whose stage has been entered
BeforeAllRuns(path) ==
    {c \in DOMAIN ctxs :
        /\ ctxs[c].callId # <<>>
        /\ ctxs[c].callId[Len(ctxs[c].callId)] = BeforeCallId
        /\ ctxs[c].file = path
        /\ \E w \in DOMAIN wgs : wgs[w].ctx = c}

\* the acts of the manifest at path of which a stage has been entered
ActRuns(path) ==
    {c \in DOMAIN ctxs :
        /\ ctxs[c].pos # <<>>
        /\ ctxs[c].file = path
        /\ \E w \in DOMAIN wgs : wgs[w].ctx = c}

\* C12: within one run the before-all stage of each manifest is executed
\* exactly once, however many of its acts are resolved and executed: never a
\* second time, and not later than the first stage of an act of the manifest.
C12_BeforeAllOncePerManifest ==
    \A path \in DOMAIN beforeAlls :
        /\ Cardinality(BeforeAllRuns(path)) <= 1
        /\ (~beforeAlls[path].nil /\ ActRuns(path) # {}) =>
               Cardinality(BeforeAllRuns(path)) = 1

\* the first stage entered for the context c
FirstStage(c) == CHOOSE w \in DOMAIN wgs : wgs[w].ctx = c /\ \A v \in 1..(w - 1) : wgs[v].ctx # c

\* the first before-all stage entered for the manifest at path
FirstBeforeAll(path) ==
    CHOOSE w \in DOMAIN wgs :
        /\ wgs[w].ctx \in BeforeAllRuns(path)
        /\ \A v \in 1..(w - 1) : wgs[v].ctx \notin BeforeAllRuns(path)

\* the manifests on the parent chain of the act context c that have a
\* before-all stage: those loaded up to the manifest of c
ChainBeforeAlls(c) ==
    {actFileObjs[o].path : o \in {o \in 1..ctxs[c].afile : HasBeforeAll(o)}}

\* the place of the first object loaded for the manifest at path
FirstLoaded(path) ==
    CHOOSE o \in DOMAIN actFileObjs :
        actFileObjs[o].path = path /\ \A n \in 1..(o - 1) : actFileObjs[n].path # path

\* C31: when a stage of an act has been entered, the before-all stage of
\* every manifest on the parent chain of the act, the root manifest included,
\* has been executed before it, and these before-all stages were entered
\* outermost manifest first.
C31_BeforeAllOfWholeChain ==
    \A c \in DOMAIN ctxs :
        (ctxs[c].pos # <<>> /\ \E w \in DOMAIN wgs : wgs[w].ctx = c) =>
            /\ \A path \in ChainBeforeAlls(c) :
                  /\ BeforeAllRuns(path) # {}
                  /\ FirstBeforeAll(path) < FirstStage(c)
                  /\ wgs[FirstBeforeAll(path)].ret
            /\ \A p, q \in ChainBeforeAlls(c) :
                  FirstLoaded(p) < FirstLoaded(q) => FirstBeforeAll(p) < FirstBeforeAll(q)

\* C15: on a signal the supervisor sets the state stopped before it kills
\* the process groups, so that once the signal handler has killed a running
\* command no further command of a before or start stage is started.
C15_StoppedBeforeKill ==
    \A p \in DOMAIN procs :
        procs[p].sname \in {"before", "start"} => ~procs[p].afterKill

\* C16: every shell child is started in a session of its own, the SIGKILLs
\* of a stop go only to process groups listed in CmdPgids, and the run never
\* signals the process group of its supervisor or a process outside the
\* listed groups.
C16_OnlyListedGroupsSignalled ==
    /\ \A p \in DOMAIN procs : procs[p].st = "killed" => procs[p].listed
    /\ sigs.quit = ""

\* the contexts whose final stage cleanup has entered, in that order
CleanupFinals ==
    LET ws == SelectSeq(wgs, LAMBDA w : w.fin /\ w.name = "final")
    IN  [i \in DOMAIN ws |-> ws[i].ctx]

Reverse(s) == [i \in DOMAIN s |-> s[Len(s) + 1 - i]]

\* the contexts of the call stack that have a final stage, innermost first
StackFinals ==
    SelectSeq(Reverse(run.stack),
              LAMBDA c : ~ctxs[c].act.final.nil \/ ~ctxs[c].act.teardown.nil)

\* Finish is executing cleanup
InCleanup ==
    \E g \in DOMAIN gor : \E i \in DOMAIN gor[g] :
        gor[g][i].fn = "Finish" /\ gor[g][i].pc = "cleanup"

\* every final stage cleanup calls has returned and the data directory is
\* about to be removed
CleanupOver ==
    \E g \in DOMAIN gor :
        Len(gor[g]) > 0 /\ Fr(g).fn = "Finish" /\ Fr(g).pc = "cleanup" /\ Fr(g).idx = 0

\* C24: while the cleanup of Finish is at work the run is running again and
\* finishing; the final stages that cleanup has entered are those of the
\* call stack, innermost first, all of them once cleanup is over; and the
\* data directory is there as long as cleanup is not over
C24_FinishAfterStop ==
    InCleanup =>
        /\ run.IsFinishing
        /\ run.State = ExecStateRunning
        /\ Len(CleanupFinals) <= Len(StackFinals)
        /\ CleanupFinals = SubSeq(StackFinals, 1, Len(CleanupFinals))
        /\ CleanupOver => CleanupFinals = StackFinals
        /\ info.dir

\* goroutine g leaves the test at the head of fn in this step
LeavesCheck(g, fn) == At(g, fn, "check") /\ gor'[g] # gor[g]

\* cleanup has executed the final stage of every invocation at most once, and
\* none of the commands of these stages was killed
NoSecondCleanup ==
    /\ \A v, w \in DOMAIN wgs :
          (wgs[v].fin /\ wgs[w].fin /\ wgs[v].ctx = wgs[w].ctx) => v = w
    /\ \A p \in DOMAIN procs : wgs[procs[p].wg].fin => procs[p].st # "killed"

\* C25: once the run is finishing, a further call of Finish and the Stop of
\* a further signal return from their test at once: no command is started or
\* killed, and the run, its descriptor and the exit code stay as they are;
\* in a run all of whose signals came while it was finishing, cleanup has
\* executed every final stage at most once and none of its commands was
\* killed.
C25_FinishingNotInterrupted ==
    /\ [](sigs.late = sigs.sent => NoSecondCleanup)
    /\ [][\A g \in DOMAIN gor :
             (run.IsFinishing /\ (LeavesCheck(g, "Finish") \/ LeavesCheck(g, "Stop"))) =>
                 /\ gor' = Ret(g)
                 /\ UNCHANGED <<run, info, procs, wgs, util, os>>]_vars

\* a run has ended whose cleanup was run by the Finish of a flag parse error:
\* the Finish of main was a second call, a signal was sent while the run was
\* finishing and its Stop has returned, and every command of the final stages
\* of cleanup ran to its end
C25_Witness ==
    /\ os.status = "exit"
    /\ FlagErrorHandled
    /\ sigs.late = 1 /\ sigs.sent = 1
    /\ StopReturned
    /\ \E p \in DOMAIN procs : wgs[procs[p].wg].fin
    /\ \A p \in DOMAIN procs : wgs[procs[p].wg].fin => procs[p].st = "exited"

\* C33: every child that was started is covered by the Stop that follows:
\* the kill step of Stop leaves no started command running, whether or not
\* the command had registered its process group when the signal was handled
C33_StartedChildCoveredByStop ==
    [][\A g \in DOMAIN gor :
          (At(g, "Stop", "kill") /\ gor'[g] # gor[g]) =>
              \A p \in DOMAIN procs : procs'[p].st # "running"]_vars

\* C26: Stop acts on a running run that is not finishing and on no other:
\* called before the run context exists it changes nothing (the process does
\* not die of it), and a run that Stop has set to stopped has its descriptor
\* marked is_killing and has no command of CmdPgids left running.
C26_StopGuard ==
    /\ os.why # "runCtx.State"
    /\ run.State = ExecStateStopped =>
          /\ info.IsKilling
          /\ \A p \in DOMAIN procs : InSeq(p, info.CmdPgids) => procs[p].st # "running"

\* C29: when the start stage of an invocation has returned and the run is
\* not stopped, Exec requests the teardown of the detached children, before
\* it enters the final stage, exactly when the invocation is the outermost
\* one, the act of the run.
C29_TeardownByOutermost ==
    [][\A g \in DOMAIN gor :
          (At(g, "Exec", "final") /\ gor'[g] # gor[g] /\ run.State # ExecStateStopped) =>
              (LastActiveCtx <=> Fr(g).ctx = run.ActCtx)]_vars

\* C23: the wait group of a stage is released once per command: it never
\* goes below zero, and once the loop of the stage is over and every command
\* of the stage has returned, the wait of the stage returns
C23_StageAlwaysReturns ==
    /\ \A w \in DOMAIN wgs : wgs[w].cnt >= 0
    /\ \A g \in DOMAIN gor :
          Alive /\ InWait(g) /\ NoCmdOf(Fr(g).wg) => WaitReturns(Fr(g).wg)

\* the executions of the final stage of the invocation c that have started
\* a command
FinalRuns(c) ==
    {w \in DOMAIN wgs : /\ wgs[w].name = "final"
                        /\ wgs[w].ctx = c
                        /\ \E p \in DOMAIN procs : procs[p].wg = w}

\* the invocation c has been pushed by its Exec, which has not returned
Executes(c) ==
    \E g \in DOMAIN gor : \E i \in DOMAIN gor[g] :
        gor[g][i].fn = "Exec" /\ gor[g][i].ctx = c /\ gor[g][i].pc # "enter"

\* C28: as long as no signal has come, the call stack holds exactly the
\* invocations whose Exec has not returned
C28_CallStackIsExecuting ==
    NeverSignalled =>
        /\ \A i \in DOMAIN run.stack : Executes(run.stack[i])
        /\ \A c \in DOMAIN ctxs : Executes(c) => InSeq(c, run.stack)

\* C27: the final stage of an invocation is executed at most once; an
\* invocation that has returned after its final stage ran is not on the call
\* stack, and an invocation that is executing is on it
C27_FinalAtMostOnce ==
    /\ \A c \in DOMAIN ctxs : Cardinality(FinalRuns(c)) <= 1
    /\ \A i \in DOMAIN run.stack :
          LET c == run.stack[i]
          IN  ~Executes(c) => \A w \in FinalRuns(c) : wgs[w].fin
    /\ \A c \in DOMAIN ctxs : Executes(c) => InSeq(c, run.stack)

\* C36: when the flags of an act do not parse, no before or start command of
\* that invocation is started, no before or start command of the run is
\* started once the run is finishing, the rest of the calling stage
\* included, and the final stage of every invocation runs at most once
C36_FlagErrorEndsRun ==
    /\ \A p \in DOMAIN procs :
          procs[p].ctx \in run.flagErr => procs[p].sname \notin {"before", "start"}
    /\ \A p \in DOMAIN procs :
          procs[p].afterFlag => procs[p].sname \notin {"before", "start"}
    /\ run.flagErr # {} => \A c \in DOMAIN ctxs : Cardinality(FinalRuns(c)) <= 1

\* no stage executed so far is parallel
AllSequential == \A w \in DOMAIN wgs : ~wgs[w].par

\* C37: CmdPgids holds exactly the process groups of the shell children that
\* were started and have not been reaped yet; in a run without a parallel
\* stage it never holds more than one, and it is empty whenever no command
\* is running
C37_CmdPgidsAreRunning ==
    /\ \A p \in DOMAIN procs : InSeq(p, info.CmdPgids) <=> procs[p].reap = "no"
    /\ AllSequential => Len(info.CmdPgids) <= 1
    /\ (\A p \in DOMAIN procs : procs[p].st # "running") => info.CmdPgids = <<>>

(***************************************************************************)
(* Properties of the variable resolver, checked under SpecVars.            *)
(***************************************************************************)
\* the sources in the order of precedence that is claimed, lowest first, as
\* the maps the i-th command has found them to be
ClaimedOrder(i) ==
    <<EnvironVars(exported[i].environ), varSrc.EnvFileVars, varSrc.ActEnvFileVars, varSrc.RunVars,
      exported[i].runtime, varSrc.ParentVars, varSrc.Vars, varSrc.RunActVars, varSrc.ActVars,
      varSrc.FlagVals>>

\* the key is defined by the environment that the i-th command has found
InEnviron(i, k) == \E j \in DOMAIN exported[i].environ : exported[i].environ[j][1] = k

\* C13: the variable mapping of an invocation gives, for every key, the value
\* of the highest-precedence source that defines it, in the order OS env <
\* manifest env-file < act env-file < run-wide vars < runtime dotenv <
\* parent-local vars < invocation-local vars < act-runtime vars < flag values.
C13_VariablePrecedence ==
    \A i \in DOMAIN exported : \A k \in Keys :
        LET claimed == Layers(EmptyMap, ClaimedOrder(i))
        IN  /\ k \in DOMAIN claimed =>
                  /\ k \in DOMAIN exported[i].vars
                  /\ exported[i].vars[k] = claimed[k]
            /\ InEnviron(i, k) => k \in DOMAIN exported[i].vars

\* a source above the runtime dotenv in the claimed order defines the key
DefinedAbove(k) ==
    \E m \in {varSrc.ParentVars, varSrc.Vars, varSrc.RunActVars, varSrc.ActVars,
              varSrc.FlagVals} : k \in DOMAIN m

\* C14: in a sequential stage a key that command i wrote to the runtime
\* dotenv is, with that value, in the variables exported to command i+1,
\* whenever no higher-precedence source (local, act-runtime or flag value)
\* defines the key.
C14_DotenvVisibleToNext ==
    \A i \in DOMAIN exported :
        (i + 1 \in DOMAIN exported /\ exported[i].wrote /\ ~DefinedAbove("X")) =>
            /\ "X" \in DOMAIN exported[i + 1].vars
            /\ exported[i + 1].vars["X"] = Written[i]

\* C38: the environment a command is given is a function of the sources: no
\* name is exported twice with different values, and ACT_ENV has the value
\* of the current run, also when the environment of the supervisor defines
\* ACT_ENV already
C38_ExportIsFunction ==
    \A i \in DOMAIN exported :
        /\ \A kv, lw \in exported[i].envars : kv[1] = lw[1] => kv[2] = lw[2]
        /\ "ACT_ENV" \in DOMAIN exported[i].env
        /\ exported[i].env["ACT_ENV"] = varSrc.RunActVars["ActEnv"]

(***************************************************************************)
(* Properties of the descriptor scans, checked under SpecScan.             *)
(***************************************************************************)
\* C39: loading gives nothing when info.json is missing or cannot be parsed,
\* and a scan removes such a directory when it comes to it; what a scan
\* returns is the descriptor of a run, never a malformed or partial one
C39_MalformedIsAbsent ==
    infos.op # "none" =>
        /\ \A d \in infos.visited :
              infos.before[d] \in {"none", "syntax", "mistyped"} =>
                  /\ LoadInfoFromFile(infos.before, d).nil
                  /\ dataDir[d] = "nodir"
        /\ \A i \in DOMAIN infos.result :
              \E d \in infos.visited :
                  /\ infos.before[d] = "json"
                  /\ infos.result[i] = [nil |-> FALSE, Id |-> DirId(d), NameId |-> DirNameId(d)]

(***************************************************************************)
(* Properties of the prefixing line writer, checked under SpecLog.         *)
(***************************************************************************)
\* the bytes printed so far, in the order of printing
RECURSIVE Printed(_)
Printed(o) == IF o = <<>> THEN <<>> ELSE Printed(SubSeq(o, 1, Len(o) - 1)) \o o[Len(o)].str

\* C40: every byte written is printed exactly once and in order: the bytes
\* printed, followed by the bytes still buffered, are the bytes written; what
\* is printed holds no newline but at its end, so that a line is printed in one
\* piece, and carries the prefix unless the writer is detached; a line is
\* printed by the Write that brings its newline; after Flush or Close the bytes
\* printed are all the bytes written
C40_EveryByteOnceInOrder ==
    /\ Printed(logWriter.out) \o logWriter.buf = logWriter.written
    /\ \A i \in DOMAIN logWriter.out :
          logWriter.out[i].str # <<>> =>
              /\ IndexByte(logWriter.out[i].str, "nl") \in {0, Len(logWriter.out[i].str)}
              /\ logWriter.out[i].prefixed = ~logWriter.Detached
    /\ (logWriter.op = "write" /\ logWriter.written[Len(logWriter.written)] = "nl") => logWriter.buf = <<>>
    /\ logWriter.op \in {"flush", "close"} => Printed(logWriter.out) = logWriter.written

(***************************************************************************)
(* Properties of the run tree, checked under SpecTree.                     *)
(***************************************************************************)
\* the run id of the runner r: ACT_RUN_ID when it is set
RunIdOf(r) == IF runners[r].env.ACT_RUN_ID # 0 THEN runners[r].env.ACT_RUN_ID ELSE r

\* the runner has saved its descriptor and executes its act
Executing(r) == runners[r].pc \in {"cmds", "wait"}

\* the runner owns its run: it is not the launcher of a daemon
Owns(r) == ~runners[r].daemonPtr

Ended(r) == runners[r].pc \in {"exited", "panic"}

\* C17: the data directory of a run exists while its supervisor executes the
\* act, and it does not exist once the supervisor has ended
C17_DescriptorWhileAlive ==
    \A r \in DOMAIN runners :
        /\ Executing(r) => store[RunIdOf(r)].exists
        /\ Ended(r) /\ Owns(r) => ~store[RunIdOf(r)].exists

\* the kill routines that `act stop` has called have run to their end
KillsOver == \A s \in DOMAIN stops : stops[s].pc = "done"

\* C18: once `act stop` has called the kill routine on a run and the routine
\* has returned, no command process group of that run is running, its data
\* directory does not exist, and the run has started no command since
C18_StopHaltsRun ==
    \A r \in DOMAIN runners :
        Owns(r) /\ RunIdOf(r) \in stopped /\ KillsOver =>
            /\ \A k \in DOMAIN shells :
                  shells[k].run = r => shells[k].st # "running" /\ ~shells[k].afterStop
            /\ ~store[RunIdOf(r)].exists

\* the runner was spawned by a detached command
Detached(c) == runners[c].env.ACT_PARENT_RUN_ID # 0

\* the runner whose detached command spawned c
SpawnerOf(c) ==
    CHOOSE r \in DOMAIN runners : Owns(r) /\ RunIdOf(r) = runners[c].env.ACT_PARENT_RUN_ID

\* the runner has created its run context
HasRunCtx(c) == runners[c].pc \in {"cmds", "wait", "finish", "exited"}

\* C19: a runner spawned by a detached command has its own session,
\* ACT_PARENT_RUN_ID is the id of the spawning run and ACT_RUN_ID an id no
\* other run has, that id is in the ChildActIds of the spawning run, the
\* spawning run is past the detached command, and the name id of the child,
\* once it has its run context, is the parent's name id followed by the
\* called name
C19_DetachSpawnsChild ==
    \A c \in DOMAIN runners :
        Detached(c) =>
            LET r == SpawnerOf(c)
                env == runners[c].env
            IN  /\ runners[c].Setsid
                /\ env.ACT_PARENT_RUN_ID = runners[r].Info.Id
                /\ \A o \in DOMAIN runners \ {c} : RunIdOf(o) # env.ACT_RUN_ID
                /\ InSeq(env.ACT_RUN_ID, runners[r].Info.ChildActIds)
                /\ \E i \in 1..(runners[r].idx - 1) :
                      TreeActs[runners[r].name][i] = DetachCmd(runners[c].name)
                /\ HasRunCtx(c) =>
                      /\ runners[c].Info.Id = env.ACT_RUN_ID
                      /\ runners[c].Info.ParentActId = runners[r].Info.Id
                      /\ runners[c].Info.NameId = runners[r].Info.NameId \o <<runners[c].name>>

\* the child runs a command while the run that spawned it has gone on to its
\* own next command
C19_Witness ==
    \E c \in DOMAIN runners :
        /\ Detached(c)
        /\ runners[c].pc = "wait"
        /\ shells[runners[c].pg].st = "running"
        /\ runners[c].Info.NameId = <<"p", "c">>
        /\ runners[SpawnerOf(c)].pc = "wait"
        /\ stopped = {}

\* C20: as long as nobody calls `act stop`, a detached child is not brought
\* down by the run that spawned it: none of its commands is killed and it
\* does not die at its start; and once the child and the run that spawned
\* it have ended, the parent's data directory does not exist
C20_DetachedChildOutlivesParent ==
    stopped = {} =>
        \A c \in DOMAIN runners :
            Detached(c) =>
                /\ \A k \in DOMAIN shells : shells[k].run = c => shells[k].st # "killed"
                /\ runners[c].pc # "panic"
                /\ runners[c].pc = "exited" /\ runners[SpawnerOf(c)].pc = "exited" =>
                      ~store[RunIdOf(SpawnerOf(c))].exists

\* C21: the descriptor a data directory holds is the one its owner holds in
\* memory: whatever is on disk was written by the owning runner, and no
\* update of the owner is missing from it
C21_OnlyOwnerWrites ==
    \A r \in DOMAIN runners :
        Owns(r) /\ store[RunIdOf(r)].exists => store[RunIdOf(r)].info = runners[r].Info

\* the runner is the launcher of a daemon and has exited
Launched(l) == runners[l].daemonPtr /\ runners[l].pc = "exited"

\* the daemon runner that the launcher l started
DaemonOf(l) ==
    CHOOSE d \in DOMAIN runners : runners[d].env.ACT_DAEMON /\ RunIdOf(d) = RunIdOf(l)

\* C22: the daemon runner has its own session, ACT_DAEMON and the reserved
\* id; once the launcher has exited, the log file of the reserved id is in
\* place, and so is the descriptor of a daemon that has saved one and is
\* still executing, and it is the daemon's
C22_DaemonLaunch ==
    \A l \in DOMAIN runners :
        Launched(l) =>
            LET d == DaemonOf(l)
            IN  /\ runners[d].Setsid
                /\ runners[d].env.ACT_RUN_ID = runners[l].Info.Id
                /\ store[RunIdOf(l)].log
                /\ stopped = {} /\ Executing(d) =>
                      /\ store[RunIdOf(l)].exists
                      /\ store[RunIdOf(l)].info = runners[d].Info

\* the run id of the run that spawned the detached runner c
ParentIdOf(c) == runners[c].env.ACT_PARENT_RUN_ID

\* this step is the kill routine called on the descriptor of the runner c
KillOf(c) ==
    \E s \in DOMAIN stops :
        /\ stops[s].info.Id = RunIdOf(c)
        /\ stops[s].pc = "kill"
        /\ stops'[s].pc = "done"

\* C30: a detached run that has ended is no longer listed in the ChildActIds
\* of its parent's descriptor; and when the kill routine ends a detached run
\* whose parent has a descriptor, the child's id is taken from the parent's
\* ChildActIds, the parent is killed and its directory removed exactly when
\* it has no CmdPgids, no other child and is not is_killing, and a parent
\* that is killed that way no longer executes its act.
C30_ParentCascade ==
    /\ [](\A c \in DOMAIN runners :
             (Detached(c) /\ runners[c].pc = "exited" /\ store[ParentIdOf(c)].exists) =>
                 ~InSeq(RunIdOf(c), store[ParentIdOf(c)].info.ChildActIds))
    /\ [][\A c \in DOMAIN runners :
             (Detached(c) /\ KillOf(c) /\ store[ParentIdOf(c)].exists) =>
                 LET p == ParentIdOf(c)
                     i == store[p].info
                     idle == /\ i.CmdPgids = <<>>
                             /\ Without(i.ChildActIds, RunIdOf(c)) = <<>>
                             /\ ~i.IsKilling
                 IN  /\ store'[p].exists => ~InSeq(RunIdOf(c), store'[p].info.ChildActIds)
                     /\ p \in stopped' <=> idle
                     /\ ~store'[p].exists <=> idle
                     /\ p \in stopped' => ~Executing(SpawnerOf(c))']_vars

\* C34: once a descriptor has been saved with is_killing set, every later
\* read of it has the flag set, whatever the owner of the run writes in
\* between; so when the kill routine of a run goes on to the children, the
\* descriptor the children read for their parent has the flag set, and no
\* child takes itself from the parent's list or kills the parent again
C34_IsKillingSticky ==
    [][/\ \A id \in DOMAIN store :
             (store[id].exists /\ store[id].info.IsKilling /\ store'[id].exists) =>
                 store'[id].info.IsKilling
       /\ \A s \in DOMAIN stops :
             (stops[s].pc = "kill" /\ stops'[s].pc = "done" /\ store[stops[s].info.Id].exists) =>
                 store[stops[s].info.Id].info.IsKilling]_vars

\* this step is a scan of the data directory
ScanStep == store' # store /\ UNCHANGED <<runners, shells, stopped, stops>>

\* the runner has started and not ended
AliveRunner(r) == ~Ended(r)

\* C35: a scan of the data directory removes the directories of runs that
\* are no longer alive and no other: never the directory of a run whose
\* launcher or supervisor is alive, such as a daemon that has been launched
\* and has not saved its descriptor yet
C35_ScanKeepsLiveRuns ==
    [][ScanStep =>
          \A id \in DOMAIN store :
              ((store[id].exists \/ store[id].log) /\ ~(store'[id].exists \/ store'[id].log)) =>
                  \A r \in DOMAIN runners : RunIdOf(r) = id => ~AliveRunner(r)]_vars

=============================================================================
